---- MODULE Spec2Model ----
(***************************************************************************)
(* Potku entity model: Sample serial counters and directory re-scans       *)
(* (modules/sample.py, modules/measurement.py, modules/simulation.py),     *)
(* settings resolution and tof.in generation (modules/measurement.py),     *)
(* and cut extraction (Measurement.save_cuts).                             *)
(***************************************************************************)
EXTENDS Integers, Sequences, FiniteSets, TLC

VARIABLES
    \* ---- Sample and its on-disk directory -------------------------------
    running_int_measurement,  \* Sample._running_int_measurement
    running_int_simulation,   \* Sample._running_int_simulation
    sample_measurements,      \* sample.measurements.measurements  (tab_id -> obj)
    request_measurements,     \* request.samples.measurements.measurements
    sample_simulations,       \* sample.simulations.simulations
    request_simulations,      \* request.samples.simulations.simulations
    disk,                     \* entries of request.directory/sample.directory
    cwd_is_request,           \* whether the process works in request.directory
    issued_measurement,       \* history: serials read for new measurements
    issued_simulation,        \* history: serials read for new simulations
    removed,                  \* history: some removal has removed an object
    \* ---- creations running concurrently under the Sample ----------------
    c_pc,                     \* position of each creation in its code
    c_args,                   \* its arguments: kind, name, tab_id
    c_serial,                 \* its local next_serial
    c_dir,                    \* its local directory name
    completed,                \* history: the creations that have finished
    \* ---- Request defaults and a Measurement's own settings --------------
    default_detector,         \* Request.default_detector
    default_run,              \* Request.default_run
    default_target,           \* Request.default_target
    default_measurement,      \* Request.default_measurement
    m_detector,               \* Measurement.detector
    m_run,                    \* Measurement.run
    m_target,                 \* Measurement.target
    use_default_profile_settings,
    r_returned,               \* what the last resolver call returned
    r_calls,                  \* history: resolver calls so far (0, 1, many)
    r_prevOp,                 \* history: the operation before the last one
    \* ---- Simulation and ElementSimulation -------------------------------
    use_request_settings,     \* Simulation.use_request_settings
    use_default_settings,     \* ElementSimulation.use_default_settings
    elem_sim,                 \* the ElementSimulation's own parameters
    default_element_simulation, \* Request.default_element_simulation
    mcerd_settings,           \* settings dictionary handed to MCERD
    \* ---- tof.in generation ----------------------------------------------
    t_settings,               \* numeric fields of the resolved settings
    t_global,                 \* numeric fields of the global settings
    t_clock,                  \* wall clock, in whole seconds
    t_dir,                    \* directories holding tof.in and its backups
    t_last,                   \* history: inputs of the last generation
    t_call,                   \* history: arguments of the last call
    t_wrote,                  \* history: the last call wrote tof.in
    t_changes,                \* history: number of field changes made
    detector_tof_foils,       \* detector.tof_foils: positions of the timing foils
    t_log,                    \* what the last generate_tof_in logged
    \* ---- raw data, selections and cut files -----------------------------
    data,                     \* Measurement.data: the events, in order
    selections,               \* Measurement.selector.selections
    cut_files,                \* the .cut files of the Cuts directory
    changes_cut_files,        \* the .cut files of the Changes directory
    selections_file,          \* <name>.selections exists
    cuts_before,              \* history: the .cut files the last save_cuts met
    \* ---- the data files of a Measurement --------------------------------
    asc_file,                 \* Data/<name>.asc: lines of two integers
    npy_file,                 \* Data/<name>.npy: the cached array
    load_log,                 \* what the last load_data logged as error
    loaded_from,              \* history: the file the last load_data read
    \* ---- the names a Measurement gives to its files ----------------------
    m_name,                   \* Measurement.name
    m_directory,              \* the name Measurement.directory is derived from
    info_files,               \* the names of the .info files in the directory
    named_cuts,               \* the .cut files of Cuts and Changes, in order
    rename_call,              \* history: the last rename and what it met
    \* ---- Measurement.from_file -------------------------------------------
    default_profile,          \* profile parameters of request.default_measurement
    loaded,                   \* the Measurement the last from_file returned
    from_file_log,            \* the files the last from_file logged as unreadable
    from_file_call,           \* history: the files the last from_file was given
    f_clock,                  \* time.time() of the last write
    f_info,                   \* the .info file of the Measurement directory
    f_measurement,            \* its .measurement file
    f_profile,                \* its .profile file
    \* ---- the polygon point editor (point_drag.MainWindow) ---------------
    coord,                    \* self.coord: the corners of the polygon
    point_to_move,            \* self.point_to_move
    move_handler_id,          \* self.move_handler_id
    motion_handlers,          \* ids connected to 'motion_notify_event'
    next_cid,                 \* the id the next mpl_connect returns
    moves,                    \* corners moved so far
    held,                     \* the mouse buttons that are down
    last_event,               \* history: the last mouse event handled
    \* ---- last operation performed and the exception it raised -----------
    lastOp,
    err

sampleVars == <<running_int_measurement, running_int_simulation,
                sample_measurements, request_measurements,
                sample_simulations, request_simulations, disk,
                cwd_is_request, issued_measurement, issued_simulation,
                removed>>

concVars == <<c_pc, c_args, c_serial, c_dir, completed>>

requestVars == <<default_detector, default_run, default_target,
                 default_measurement>>

resolveVars == <<m_detector, m_run, m_target, use_default_profile_settings,
                 r_returned, r_calls, r_prevOp>>

resolveVarsButHistory == <<m_detector, m_run, m_target,
                           use_default_profile_settings, r_returned,
                           r_calls>>

simVars == <<use_request_settings, use_default_settings, elem_sim,
             default_element_simulation, mcerd_settings>>

tofVars == <<t_settings, t_global, t_clock, t_dir, t_last, t_call, t_wrote,
             t_changes, detector_tof_foils, t_log>>

cutVars == <<data, selections, cut_files, changes_cut_files,
             selections_file, cuts_before>>

loadVars == <<asc_file, npy_file, load_log, loaded_from>>

\* the variables of the file operations of a Measurement other than cuts
renameVars == <<m_name, m_directory, info_files, named_cuts, rename_call>>

fromFileVars == <<default_profile, loaded, from_file_log, from_file_call,
                  f_clock, f_info, f_measurement, f_profile>>

pointVars == <<coord, point_to_move, move_handler_id, motion_handlers,
               next_cid, moves, held, last_event>>

moreVars == <<loadVars, renameVars, fromFileVars, pointVars>>

vars == <<sampleVars, concVars, requestVars, resolveVars, simVars, tofVars,
          cutVars, moreVars, lastOp, err>>

-----------------------------------------------------------------------------
(* Bounds of the model *)

\* at most this many creations are performed under the Sample
MaxCreate == 2

\* objects of one class the Request may hold as its default, one after the
\* other
MaxObj == 2

\* largest value a numeric settings field takes
MaxValue == 2

\* changes of settings fields made in one behaviour
MaxChanges == 1

\* seconds the wall clock advances in one behaviour
MaxClock == 1

\* largest coordinate of an event or of a selection point
MaxCoord == 3

\* events in the raw data
MaxEvents == 1

\* lines of an .asc data file
MaxLines == 2

\* largest value of the measurement counter when a Sample is opened
MaxSerial == 100

\* largest value of the clock that stamps the files of a Measurement
MaxTime == 3

\* most corners a polygon is given in the point editor
MaxPoints == 4

\* most ids handed out by mpl_connect for the motion handler
MaxCid == 2

\* most corners moved by dragging
MaxMoves == 1

\* .cut files a Measurement holds when it is renamed
MaxCuts == 2

\* creations that may run at the same time under the Sample
MaxProc == 2

Procs == 1..MaxProc

\* tab identifiers handed in by the user interface
MaxTab == 1

TabIds == 1..MaxTab

\* entity names typed by the user (one-letter names)
Names == {"a", "b"}

-----------------------------------------------------------------------------
(* Strings: a directory name is its prefix followed by a sequence of       *)
(* characters.                                                             *)

MeasurementPrefix == "Measurement_"

SimulationPrefix == "MC_simulation_"

DigitChars == <<"0", "1", "2", "3", "4", "5", "6", "7", "8", "9">>

\* code point of a character, as str comparison uses it
CharCode(c) ==
    CASE c = " " -> 32
      [] c = "+" -> 43
      [] c = "-" -> 45
      [] c = "0" -> 48
      [] c = "1" -> 49
      [] c = "2" -> 50
      [] c = "3" -> 51
      [] c = "4" -> 52
      [] c = "5" -> 53
      [] c = "6" -> 54
      [] c = "7" -> 55
      [] c = "8" -> 56
      [] c = "9" -> 57
      [] c = "a" -> 97
      [] c = "b" -> 98
      [] c = "x" -> 120

IsDigit(c) == \E i \in 1..10 : DigitChars[i] = c

DigitVal(c) == CHOOSE v \in 0..9 : DigitChars[v + 1] = c

IsSpace(c) == c = " "

IsSign(c) == c \in {"+", "-"}

\* the decimal digits of a natural number, most significant first
RECURSIVE Digits(_)
Digits(n) == IF n < 10 THEN <<DigitChars[n + 1]>>
             ELSE Digits(n \div 10) \o <<DigitChars[(n % 10) + 1]>>

\* "%02d" % n
Format02d(n) ==
    IF n < 0 THEN <<"-">> \o Digits(0 - n)
    ELSE IF n < 10 THEN <<"0">> \o Digits(n)
    ELSE Digits(n)

\* s[0:2]
Slice2(s) == IF Len(s) <= 2 THEN s ELSE SubSeq(s, 1, 2)

\* whether int(f) succeeds for a string f of at most two characters
IntParses(f) ==
    \/ Len(f) = 1 /\ IsDigit(f[1])
    \/ Len(f) = 2 /\ \/ IsDigit(f[1]) /\ IsDigit(f[2])
                     \/ IsSpace(f[1]) /\ IsDigit(f[2])
                     \/ IsDigit(f[1]) /\ IsSpace(f[2])
                     \/ IsSign(f[1]) /\ IsDigit(f[2])

\* int(f) for a string f for which it succeeds
IntOf(f) ==
    IF Len(f) = 1 THEN DigitVal(f[1])
    ELSE IF IsDigit(f[1]) /\ IsDigit(f[2])
         THEN 10 * DigitVal(f[1]) + DigitVal(f[2])
    ELSE IF IsDigit(f[1]) THEN DigitVal(f[1])
    ELSE IF f[1] = "-" THEN 0 - DigitVal(f[2])
    ELSE DigitVal(f[2])

\* directory_prefix + "%02d" % serial + "-" + name
DirectoryName(prefix, serial, name) ==
    [prefix |-> prefix, rest |-> Format02d(serial) \o <<"-", name>>]

\* order of the prefixes as strings ('C' < 'e' < 'g')
PrefixRank(p) ==
    CASE p = SimulationPrefix -> 1
      [] p = MeasurementPrefix -> 2
      [] OTHER -> 3

\* lexicographic order of character sequences
RECURSIVE SeqLess(_, _)
SeqLess(s, t) ==
    IF s = <<>> THEN t # <<>>
    ELSE IF t = <<>> THEN FALSE
    ELSE IF CharCode(Head(s)) # CharCode(Head(t))
         THEN CharCode(Head(s)) < CharCode(Head(t))
    ELSE SeqLess(Tail(s), Tail(t))

\* str.__lt__ on two directory names
NameLess(a, b) ==
    IF PrefixRank(a.prefix) # PrefixRank(b.prefix)
    THEN PrefixRank(a.prefix) < PrefixRank(b.prefix)
    ELSE SeqLess(a.rest, b.rest)

EntryName(e) == [prefix |-> e.prefix, rest |-> e.rest]

-----------------------------------------------------------------------------
(* Objects held in the tab dictionaries *)

NoObj == [none |-> TRUE]

\* a Measurement or Simulation object, as far as the Sample is concerned
Entity(kind, name, tab_id, serial_number, directory) ==
    [kind |-> kind, name |-> name, tab_id |-> tab_id,
     serial_number |-> serial_number, directory |-> directory]

EmptyTabs == [t \in TabIds |-> NoObj]

\* `obj.directory == name`: a directory compares equal to a bare name only
\* when it consists of that name alone
DirectoryIsName(d, n) == d.rest = <<n>> /\ d.prefix = ""

\* an entry of the Sample directory: its name, whether it is a directory
\* and whether it holds the descriptor file (.info / .simulation)
DiskEntry(dirname, isdir, desc) ==
    [prefix |-> dirname.prefix, rest |-> dirname.rest,
     isdir |-> isdir, desc |-> desc]

Exists(d, dirname) == \E e \in d : EntryName(e) = dirname

ExistsAsFile(d, dirname) == \E e \in d : EntryName(e) = dirname /\ ~e.isdir

\* Path.mkdir(exist_ok=True) / os.makedirs guarded by os.path.exists
MakeDir(d, dirname) ==
    IF Exists(d, dirname) THEN d ELSE d \cup {DiskEntry(dirname, TRUE, FALSE)}

\* the descriptor file is written into an existing directory
WriteDescriptor(d, dirname) ==
    {e \in d : EntryName(e) # dirname} \cup {DiskEntry(dirname, TRUE, TRUE)}

IncreaseNoop(c) == c

\* Sample.increase_running_int_measurement_by_1
increase_running_int_measurement_by_1(c) == c + 1

\* Sample.increase_running_int_simulation_by_1
increase_running_int_simulation_by_1(c) == c + 1

-----------------------------------------------------------------------------
(* Re-scan of the Sample directory *)

\* the listing in descending order of names
RECURSIVE SortNamesDescending(_)
SortNamesDescending(S) ==
    IF S = {} THEN <<>>
    ELSE LET m == CHOOSE e \in S :
                    \A o \in S \ {e} : NameLess(EntryName(o), EntryName(e))
         IN <<m>> \o SortNamesDescending(S \ {m})

\* list.sort() of the directory listing
RECURSIVE SortNames(_)
SortNames(S) ==
    IF S = {} THEN <<>>
    ELSE LET m == CHOOSE e \in S :
                    \A o \in S \ {e} : NameLess(EntryName(e), EntryName(o))
         IN <<m>> \o SortNames(S \ {m})

\* the for loop of get_measurements_files / get_simulation_files over the
\* sorted listing; st = [counter, found, raised]
RECURSIVE ScanLoop(_, _, _)
ScanLoop(listing, prefix, st) ==
    IF listing = <<>> THEN st
    ELSE LET e == Head(listing)
             field == Slice2(e.rest)
         IN IF e.prefix # prefix
            THEN ScanLoop(Tail(listing), prefix, st)
            ELSE IF ~IntParses(field)
            THEN ScanLoop(Tail(listing), prefix, st)      \* ValueError: continue
            ELSE IF ~e.isdir
            THEN [counter |-> IntOf(field), found |-> st.found,
                  raised |-> "NotADirectoryError"]        \* os.listdir raises
            ELSE ScanLoop(Tail(listing), prefix,
                          [counter |-> IntOf(field),
                           found |-> st.found \/ e.desc,
                           raised |-> "none"])

\* the value of the running counter after a re-scan, and what was raised
Rescan(listing, prefix, counter) ==
    LET st == ScanLoop(listing, prefix,
                       [counter |-> counter, found |-> FALSE, raised |-> "none"])
    IN IF st.raised # "none" THEN st
       ELSE IF st.found
       THEN [st EXCEPT !.counter = st.counter + 1]
       ELSE st

-----------------------------------------------------------------------------
(* Settings objects.  An object is known by its identity: the class, who    *)
(* created it and a number.                                                 *)

Object(class, owner, id) == [class |-> class, owner |-> owner, id |-> id]

\* the objects a Request may hold as default of a class
DefaultObjects(class) == {Object(class, "request", i) : i \in 1..MaxObj}

\* the objects a Measurement may hold as its own
OwnObjects(class) == {Object(class, "measurement", i) : i \in 1..MaxObj}

\* the Measurement itself
Self == Object("Measurement", "measurement", 0)

NoResult == [none |-> TRUE]

\* Request.__init__ gives the defaults, Measurement.__init__ the own objects;
\* use_default_profile_settings defaults to True
SettingsInit ==
    /\ default_detector = Object("Detector", "request", 1)
    /\ default_run = Object("Run", "request", 1)
    /\ default_target = Object("Target", "request", 1)
    /\ default_measurement = Object("Measurement", "request", 1)
    /\ m_detector = Object("Detector", "measurement", 1)
    /\ m_run = Object("Run", "measurement", 1)
    /\ m_target = Object("Target", "measurement", 1)
    /\ use_default_profile_settings = TRUE
    /\ r_returned = NoResult
    /\ r_calls = 0
    /\ r_prevOp = "init"

\* the ion counts, angles, energy and mode of an ElementSimulation
\* (ElementSimulation.__init__ defaults; the scattering angle is not set
\* there)
ElementSimulationDefaults ==
    [number_of_ions |-> 1000000, number_of_preions |-> 100000,
     number_of_scaling_ions |-> 5, minimum_scattering_angle |-> 0,
     minimum_main_scattering_angle |-> 20, minimum_energy |-> 1,
     simulation_mode |-> "narrow", simulation_type |-> "rec",
     number_of_recoils |-> 10]

SimulationInit ==
    /\ use_request_settings = TRUE
    /\ use_default_settings = TRUE
    /\ elem_sim = ElementSimulationDefaults
    /\ default_element_simulation = ElementSimulationDefaults
    /\ mcerd_settings = NoResult

-----------------------------------------------------------------------------
(* The settings that generate_tof_in reads, and the tof.in file *)

\* numeric fields of the objects _get_used_settings returns: of run.beam and
\* run, of the detector and its foils, of the target and of the measurement
ResolvedFields ==
    {"beam.energy", "run.fluence", "detector.detector_theta",
     "target.target_theta", "foils[0].distance", "foils[1].distance",
     "foils[2].distance", "layer.thickness", "layer.density",
     "detector.tof_slope", "detector.tof_offset", "detector.angle_slope",
     "detector.angle_offset", "reference_density", "number_of_depth_steps",
     "depth_step_for_stopping", "depth_step_for_output",
     "depth_for_concentration_from", "depth_for_concentration_to",
     "channel_width"}

\* numeric fields of request.global_settings that generate_tof_in reads
GlobalFields == {"cross_sections", "num_iterations"}

FieldValues == 1..MaxValue

\* detector.foils, by position, and detector.tof_foils, the positions of the
\* timing foils (positions count from 1 here, from 0 in the source)
FoilDistanceFields ==
    <<"foils[0].distance", "foils[1].distance", "foils[2].distance">>

tof_foils == <<2, 3>>

\* the directories a tof.in is generated into.  A generation reads and
\* writes nothing outside the directory it is called for, so one directory,
\* the Measurement's own (directory is None), stands for each of them.
TofDirs == {"tof_in"}

NoFile == [nofile |-> TRUE]

NoDir == [nodir |-> TRUE]

\* Measurement.create_folder_structure makes the tof_in directory; the
\* settings are the constructors' values
TofInit ==
    /\ t_settings = [f \in ResolvedFields |->
                        IF f = "foils[2].distance" THEN 2 ELSE 1]
    /\ t_global = [f \in GlobalFields |-> 1]
    /\ t_clock = 0
    /\ t_dir = [d \in TofDirs |->
                   IF d = "tof_in"
                   THEN [tof_in |-> NoFile, backups |-> {}]
                   ELSE NoDir]
    /\ t_last = [d \in TofDirs |-> NoResult]
    /\ t_call = NoResult
    /\ t_wrote = FALSE
    /\ t_changes = 0
    /\ detector_tof_foils = tof_foils
    /\ t_log = {}

\* Measurement.__init__: no data, no selections; nothing is on disk yet
CutInit ==
    /\ data = <<>>
    /\ selections = <<>>
    /\ cut_files = {}
    /\ changes_cut_files = {}
    /\ selections_file = FALSE
    /\ cuts_before = NoResult

\* no data file has been imported and nothing was loaded
LoadInit ==
    /\ asc_file = NoFile
    /\ npy_file = NoFile
    /\ load_log = "none"
    /\ loaded_from = "none"

\* names a Measurement may be given
MeasurementNames == {"a", "b", "c"}

\* a .cut file <name>.<rest>, rest being "<element>.<n>.cut"
CutName(name, rest) == [name |-> name, rest |-> rest]

\* a Measurement created as "a": its .info file is in its directory and it
\* has no cut file
RenameInit ==
    /\ m_name = "a"
    /\ m_directory = "a"
    /\ info_files = {"a"}
    /\ named_cuts = <<>>
    /\ rename_call = NoResult

\* profile parameters: the general part, the depth profile part, the channel
\* width and the composition changes part
Profile(gen, depth, channel_width, comp) ==
    [gen |-> gen, depth |-> depth, channel_width |-> channel_width,
     comp |-> comp]

\* the keys of the depth_profiles part of a .profile file
DepthKeys == {"reference_density", "number_of_depth_steps",
              "depth_step_for_stopping", "depth_step_for_output",
              "depth_for_concentration_from", "depth_for_concentration_to"}

\* the keys of its composition_changes part
CompKeys == {"reference_cut", "number_of_splits", "normalization"}

\* prof_gen: the name and the modification time of a profile
ProfGen(name, time) ==
    [profile_name |-> name, profile_modification_time |-> time]

\* the profile that has value v in every parameter
UniformProfile(v) ==
    Profile(ProfGen(v, 1), [k \in DepthKeys |-> v], v,
            [k \in CompKeys |-> v])

\* time.strftime("%c %z %Z", time.localtime(t))
Ctime(t) == [ctime |-> t]

\* an .info file and the two modification times it stores
InfoFile(time, time_unix) ==
    [modification_time |-> time, modification_time_unix |-> time_unix]

\* a .measurement file: what reading it meets, and its general part
MeasurementFile(state, name, time, time_unix) ==
    [state |-> state, name |-> name, modification_time |-> time,
     modification_time_unix |-> time_unix]

\* a .profile file: what reading it meets, and its four parts
ProfileFile(state, general, depth_profiles, energy_spectra,
            composition_changes) ==
    [state |-> state, general |-> general,
     depth_profiles |-> depth_profiles, energy_spectra |-> energy_spectra,
     composition_changes |-> composition_changes]

\* no Measurement has been read from file, the Request has no default
\* measurement and no file of a Measurement has been written
FromFileInit ==
    /\ default_profile = NoObj
    /\ loaded = NoResult
    /\ from_file_log = {}
    /\ from_file_call = NoResult
    /\ f_clock = 1
    /\ f_info = NoObj
    /\ f_measurement = NoObj
    /\ f_profile = NoObj

\* Python's None
None == [none |-> TRUE]

\* a value that is not None
Some(v) == [value |-> v]

\* the point editor is not open
PointInit ==
    /\ coord = <<>>
    /\ point_to_move = None
    /\ move_handler_id = None
    /\ motion_handlers = {}
    /\ next_cid = 1
    /\ moves = 0
    /\ held = {}
    /\ last_event = None

\* nothing has happened to the other files of the Measurement
MoreInit == LoadInit /\ RenameInit /\ FromFileInit /\ PointInit

\* nothing beyond construction has happened to the settings, to tof.in or
\* to the cuts
SettingsIdle ==
    SettingsInit /\ SimulationInit /\ TofInit /\ CutInit /\ MoreInit

-----------------------------------------------------------------------------
(* Operations on a Sample *)

\* the state the operations on a Sample leave alone
otherThanSample == <<concVars, requestVars, resolveVars, simVars, tofVars,
                     cutVars, moreVars>>

\* the number of creations performed so far
Created == Len(issued_measurement) + Len(issued_simulation)

\* Measurements.add_measurement_file with import_evnt_or_binary true
add_measurement_file_import(tab_id, name) ==
    /\ Created < MaxCreate
    /\ LET next_serial == running_int_measurement
           dirname == DirectoryName(MeasurementPrefix, next_serial, name)
           m == Entity("Measurement", name, tab_id, next_serial, dirname)
       IN /\ running_int_measurement' =
                 increase_running_int_measurement_by_1(running_int_measurement)
          /\ issued_measurement' = Append(issued_measurement, next_serial)
          /\ IF ExistsAsFile(disk, dirname)
             THEN /\ err' = "FileExistsError"
                  /\ UNCHANGED <<disk, sample_measurements,
                                 request_measurements>>
             ELSE /\ err' = "none"
                  /\ disk' = MakeDir(disk, dirname)
                  /\ request_measurements' =
                         [request_measurements EXCEPT ![tab_id] = m]
                  /\ sample_measurements' =
                         [sample_measurements EXCEPT ![tab_id] = m]
    /\ lastOp' = "add_measurement_file"
    /\ UNCHANGED otherThanSample
    /\ UNCHANGED <<running_int_simulation, sample_simulations,
                   request_simulations, cwd_is_request, issued_simulation,
                   removed>>

\* Measurements.add_measurement_file creating a new Measurement from a data
\* file (import_evnt_or_binary false, file_path not an existing .info file)
add_measurement_file_new(tab_id, name, stem, copy_ok) ==
    /\ Created < MaxCreate
    /\ lastOp' = "add_measurement_file"
    /\ UNCHANGED otherThanSample
    /\ err' = "none"
    /\ UNCHANGED <<running_int_simulation, sample_simulations,
                   request_simulations, cwd_is_request, issued_simulation,
                   removed>>
    /\ IF \E key \in TabIds :
             /\ sample_measurements[key] # NoObj
             /\ DirectoryIsName(sample_measurements[key].directory, stem)
       THEN UNCHANGED <<running_int_measurement, issued_measurement, disk,
                        sample_measurements, request_measurements>>
       ELSE LET next_serial == running_int_measurement
                dirname == DirectoryName(MeasurementPrefix, next_serial, name)
            IN /\ running_int_measurement' =
                      increase_running_int_measurement_by_1(
                          running_int_measurement)
               /\ issued_measurement' = Append(issued_measurement, next_serial)
               /\ IF ExistsAsFile(disk, dirname)
                  THEN \* mkdir raises inside the try block: nothing is added
                       UNCHANGED <<disk, sample_measurements,
                                   request_measurements>>
                  ELSE /\ disk' = WriteDescriptor(MakeDir(disk, dirname),
                                                  dirname)
                       /\ IF copy_ok
                          THEN LET m == Entity("Measurement", name, tab_id,
                                               next_serial, dirname)
                               IN /\ request_measurements' =
                                       [request_measurements
                                            EXCEPT ![tab_id] = m]
                                  /\ sample_measurements' =
                                       [sample_measurements
                                            EXCEPT ![tab_id] = m]
                          ELSE \* copy_file_into_measurement raises: caught
                               LET m == Entity("Measurement", name, tab_id,
                                               0, dirname)
                               IN /\ UNCHANGED request_measurements
                                  /\ sample_measurements' =
                                       [sample_measurements
                                            EXCEPT ![tab_id] = m]

\* Simulations.add_simulation_file
add_simulation_file(tab_id, simulation_name) ==
    /\ Created < MaxCreate
    /\ lastOp' = "add_simulation_file"
    /\ UNCHANGED otherThanSample
    /\ err' = "none"
    /\ LET next_serial == running_int_simulation
           simulation_folder ==
               DirectoryName(SimulationPrefix, next_serial, simulation_name)
           simulation == Entity("Simulation", simulation_name, 0 - 1, 0,
                                simulation_folder)
       IN /\ running_int_simulation' =
                 increase_running_int_simulation_by_1(running_int_simulation)
          /\ issued_simulation' = Append(issued_simulation, next_serial)
          /\ IF \E key \in TabIds :
                   /\ sample_simulations[key] # NoObj
                   /\ DirectoryIsName(sample_simulations[key].directory,
                                      simulation_name)
             THEN UNCHANGED <<disk, sample_simulations, request_simulations>>
             ELSE /\ disk' = IF cwd_is_request
                             THEN MakeDir(disk, simulation_folder)
                             ELSE disk
                  /\ sample_simulations' =
                         [sample_simulations EXCEPT ![tab_id] = simulation]
                  /\ request_simulations' =
                         [request_simulations EXCEPT ![tab_id] = simulation]
    /\ UNCHANGED <<running_int_measurement, sample_measurements,
                   request_measurements, cwd_is_request, issued_measurement,
                   removed>>

HeldObjects ==
    {sample_measurements[t] : t \in TabIds}
        \cup {request_measurements[t] : t \in TabIds}
        \cup {sample_simulations[t] : t \in TabIds}
        \cup {request_simulations[t] : t \in TabIds}

\* Sample.remove_obj
remove_obj(obj_removed) ==
    /\ obj_removed \in HeldObjects \ {NoObj}
    /\ lastOp' = "remove_obj"
    /\ UNCHANGED otherThanSample
    /\ removed' = (removed \/ (obj_removed.kind = "Measurement"
                                 /\ sample_measurements[obj_removed.tab_id]
                                        # NoObj))
    /\ IF obj_removed.kind = "Measurement"
       THEN \* Measurements.remove_obj: self.measurements.pop(tab_id)
            IF sample_measurements[obj_removed.tab_id] # NoObj
            THEN /\ sample_measurements' =
                      [sample_measurements
                           EXCEPT ![obj_removed.tab_id] = NoObj]
                 /\ err' = "none"
            ELSE /\ err' = "KeyError"
                 /\ UNCHANGED sample_measurements
       ELSE \* Simulations defines no remove_obj
            /\ err' = "AttributeError"
            /\ UNCHANGED sample_measurements
    /\ UNCHANGED <<running_int_measurement, running_int_simulation,
                   request_measurements, sample_simulations,
                   request_simulations, disk, cwd_is_request,
                   issued_measurement, issued_simulation>>

\* remove_key(d, key) inside remove_by_tab_id: a copy of d without key
remove_key(d, key) == [d EXCEPT ![key] = NoObj]

\* Measurements.remove_by_tab_id / Simulations.remove_by_tab_id, called on
\* the Sample's collection or on the Request's
remove_by_tab_id(coll, tab_id) ==
    /\ lastOp' = "remove_by_tab_id"
    /\ UNCHANGED otherThanSample
    /\ LET d == CASE coll = "sample_measurements" -> sample_measurements
                  [] coll = "request_measurements" -> request_measurements
                  [] coll = "sample_simulations" -> sample_simulations
                  [] coll = "request_simulations" -> request_simulations
           r == IF d[tab_id] = NoObj THEN d ELSE remove_key(d, tab_id)
       IN /\ err' = IF d[tab_id] = NoObj THEN "KeyError" ELSE "none"
          /\ removed' = (removed \/ d[tab_id] # NoObj)
          /\ sample_measurements' =
                 IF coll = "sample_measurements" THEN r ELSE sample_measurements
          /\ request_measurements' =
                 IF coll = "request_measurements" THEN r
                 ELSE request_measurements
          /\ sample_simulations' =
                 IF coll = "sample_simulations" THEN r ELSE sample_simulations
          /\ request_simulations' =
                 IF coll = "request_simulations" THEN r ELSE request_simulations
    /\ UNCHANGED <<running_int_measurement, running_int_simulation, disk,
                   cwd_is_request, issued_measurement, issued_simulation>>

Collections == {"sample_measurements", "request_measurements",
                "sample_simulations", "request_simulations"}

\* Sample.get_measurements_files
get_measurements_files ==
    /\ lastOp' = "get_measurements_files"
    /\ UNCHANGED otherThanSample
    /\ LET st == Rescan(SortNames(disk), MeasurementPrefix,
                        running_int_measurement)
       IN /\ running_int_measurement' = st.counter
          /\ err' = st.raised
    /\ UNCHANGED <<running_int_simulation, sample_measurements,
                   request_measurements, sample_simulations,
                   request_simulations, disk, cwd_is_request,
                   issued_measurement, issued_simulation, removed>>

\* Sample.get_simulation_files
get_simulation_files ==
    /\ lastOp' = "get_simulation_files"
    /\ UNCHANGED otherThanSample
    /\ LET st == Rescan(SortNames(disk), SimulationPrefix,
                        running_int_simulation)
       IN /\ running_int_simulation' = st.counter
          /\ err' = st.raised
    /\ UNCHANGED <<running_int_measurement, sample_measurements,
                   request_measurements, sample_simulations,
                   request_simulations, disk, cwd_is_request,
                   issued_measurement, issued_simulation, removed>>

\* a child directory disappears from disk (removed outside the program)
DirectoryDisappears(e) ==
    /\ e \in disk
    /\ disk' = disk \ {e}
    /\ lastOp' = "directory_disappears"
    /\ UNCHANGED otherThanSample
    /\ err' = "none"
    /\ UNCHANGED <<running_int_measurement, running_int_simulation,
                   sample_measurements, request_measurements,
                   sample_simulations, request_simulations, cwd_is_request,
                   issued_measurement, issued_simulation, removed>>

\* no creation is running
ConcIdle ==
    /\ c_pc = [p \in Procs |-> "idle"]
    /\ c_args = [p \in Procs |-> NoObj]
    /\ c_serial = [p \in Procs |-> 0]
    /\ c_dir = [p \in Procs |-> NoObj]
    /\ completed = <<>>

\* Sample.__init__: both counters start at 1, nothing is held
SampleInit ==
    /\ running_int_measurement = 1
    /\ running_int_simulation = 1
    /\ sample_measurements = EmptyTabs
    /\ request_measurements = EmptyTabs
    /\ sample_simulations = EmptyTabs
    /\ request_simulations = EmptyTabs
    /\ issued_measurement = <<>>
    /\ issued_simulation = <<>>
    /\ removed = FALSE
    /\ lastOp = "init"
    /\ err = "none"

Create ==
    \/ \E t \in TabIds, n \in Names : add_measurement_file_import(t, n)
    \/ \E t \in TabIds, n \in Names, s \in Names, ok \in BOOLEAN :
           add_measurement_file_new(t, n, s, ok)
    \/ \E t \in TabIds, n \in Names : add_simulation_file(t, n)

Remove ==
    \/ \E o \in HeldObjects : remove_obj(o)
    \/ \E c \in Collections, t \in TabIds : remove_by_tab_id(c, t)

\* a new Sample directory; the process may or may not run in the request
\* directory
InitSample ==
    /\ SampleInit
    /\ disk = {}
    /\ cwd_is_request \in BOOLEAN
    /\ ConcIdle
    /\ SettingsIdle

\* creations and removals under one Sample, on a new Sample directory, the
\* process running in the request directory
InitCreate ==
    /\ SampleInit
    /\ disk = {}
    /\ cwd_is_request = TRUE
    /\ ConcIdle
    /\ SettingsIdle

NextCreate == Create \/ Remove

SpecCreate == InitCreate /\ [][NextCreate]_vars

\* the same with re-scans and with directories disappearing from disk
NextSample ==
    \/ Create
    \/ Remove
    \/ get_measurements_files
    \/ get_simulation_files
    \/ \E e \in disk : DirectoryDisappears(e)

SpecSample == InitSample /\ [][NextSample]_vars

-----------------------------------------------------------------------------
(* Serial allocation under creations and removals *)

StrictlyIncreasing(s) == \A i, j \in 1..Len(s) : i < j => s[i] < s[j]

\* C1: under creations (add_measurement_file creating a new measurement,
\* add_simulation_file) interleaved with removals (remove_obj,
\* remove_by_tab_id), the serials handed out for one entity kind are strictly
\* increasing, so none is handed out twice.
C1_SerialsStrictlyIncreasing ==
    /\ StrictlyIncreasing(issued_measurement)
    /\ StrictlyIncreasing(issued_simulation)

\* a creation that follows a removal that follows a creation of the same
\* kind
C1_Witness ==
    /\ removed
    /\ lastOp = "add_measurement_file"
    /\ Len(issued_measurement) >= 2
    /\ issued_measurement[1] < issued_measurement[2]

\* C2: the running counters of a Sample never decrease, whatever operation is
\* performed, re-scans included.
C2_CountersNeverDecrease ==
    [][/\ running_int_measurement' >= running_int_measurement
       /\ running_int_simulation' >= running_int_simulation]_vars

-----------------------------------------------------------------------------
(* Re-scan of an existing Sample directory *)

Child(prefix, rest, isdir, desc) ==
    DiskEntry([prefix |-> prefix, rest |-> rest], isdir, desc)

\* names a Sample directory may hold when the Sample is opened: children in
\* the Prefix_NN-name form, names written by hand, a name that does not
\* match, a child without descriptor file and a plain file
ScanCandidates ==
    {Child(MeasurementPrefix, <<"0", "1", "-", "a">>, TRUE, TRUE),
     Child(MeasurementPrefix, <<"0", "3", "-", "b">>, TRUE, TRUE),
     Child("garbage", <<>>, TRUE, FALSE),
     Child(MeasurementPrefix, <<"x", "-", "a">>, TRUE, TRUE),
     Child(MeasurementPrefix, <<"9">>, TRUE, TRUE),
     Child(MeasurementPrefix, <<"1", "0", "-", "a">>, TRUE, TRUE),
     Child(MeasurementPrefix, <<"+", "2", "-", "a">>, TRUE, TRUE),
     Child(MeasurementPrefix, <<"0", "2", "-", "b">>, TRUE, FALSE),
     Child(MeasurementPrefix, <<"0", "2", "-", "a">>, FALSE, FALSE),
     Child(SimulationPrefix, <<"0", "1", "-", "a">>, TRUE, TRUE),
     Child(SimulationPrefix, <<"0", "3", "-", "b">>, TRUE, TRUE),
     Child(SimulationPrefix, <<"x", "-", "a">>, TRUE, TRUE)}

InitScan ==
    /\ SampleInit
    /\ cwd_is_request = TRUE
    /\ disk \in SUBSET ScanCandidates
    /\ ConcIdle
    /\ SettingsIdle

NextScan == get_measurements_files \/ get_simulation_files

SpecScan == InitScan /\ [][NextScan]_vars

\* the names that match the prefix and whose serial field is an integer
SerialChildren(prefix) ==
    {e \in disk : e.prefix = prefix /\ IntParses(Slice2(e.rest))}

\* the serial set S they carry
SerialSet(prefix) == {IntOf(Slice2(e.rest)) : e \in SerialChildren(prefix)}

SetMax(S) == CHOOSE m \in S : \A o \in S : o <= m

\* each of them is a directory holding its descriptor file
AllHoldDescriptor(prefix) ==
    /\ SerialChildren(prefix) # {}
    /\ \A e \in SerialChildren(prefix) : e.isdir /\ e.desc

\* the serial field consists of two decimal digits
TwoDigitField(e) ==
    Len(e.rest) >= 2 /\ IsDigit(e.rest[1]) /\ IsDigit(e.rest[2])

-----------------------------------------------------------------------------
(* Settings resolution of a Measurement *)

otherThanResolve == <<sampleVars, concVars, simVars, tofVars, cutVars,
                      moreVars>>

\* a resolver that answers with the Measurement's objects when asked for
\* the defaults and the other way round
get_used_settings_swapped ==
    IF use_default_profile_settings
    THEN [detector |-> m_detector, run |-> m_run, target |-> m_target,
          mesu |-> Self]
    ELSE [detector |-> default_detector, run |-> default_run,
          target |-> default_target, mesu |-> default_measurement]

\* Measurement._get_used_settings: the tuple (detector, run, target, mesu)
get_used_settings ==
    IF use_default_profile_settings
    THEN [detector |-> default_detector, run |-> default_run,
          target |-> default_target, mesu |-> default_measurement]
    ELSE [detector |-> m_detector, run |-> m_run, target |-> m_target,
          mesu |-> Self]

\* history kept by every step of the settings specifications
ResolveHistory(op) ==
    /\ lastOp' = op
    /\ r_prevOp' = lastOp
    /\ err' = "none"

CountCall == r_calls' = IF r_calls < 2 THEN r_calls + 1 ELSE r_calls

\* a resolver that keeps the first tuple it computed and also stores the
\* resolved detector in the Measurement
call_get_used_settings_cached ==
    /\ r_returned' = IF r_calls > 0 /\ "mesu" \in DOMAIN r_returned
                     THEN r_returned
                     ELSE get_used_settings
    /\ m_detector' = r_returned'.detector
    /\ CountCall
    /\ ResolveHistory("get_used_settings")
    /\ UNCHANGED <<requestVars, m_run, m_target,
                   use_default_profile_settings>>
    /\ UNCHANGED otherThanResolve

\* a call of Measurement._get_used_settings
call_get_used_settings ==
    /\ r_returned' = get_used_settings
    /\ CountCall
    /\ ResolveHistory("get_used_settings")
    /\ UNCHANGED <<requestVars, m_detector, m_run, m_target,
                   use_default_profile_settings>>
    /\ UNCHANGED otherThanResolve

\* a call of Measurement.get_detector_or_default
get_detector_or_default ==
    /\ r_returned' = [detector |-> get_used_settings.detector]
    /\ CountCall
    /\ ResolveHistory("get_detector_or_default")
    /\ UNCHANGED <<requestVars, m_detector, m_run, m_target,
                   use_default_profile_settings>>
    /\ UNCHANGED otherThanResolve

\* measurement.use_default_profile_settings = not
\* measurement.use_default_profile_settings
toggle_use_default_profile_settings ==
    /\ use_default_profile_settings' = ~use_default_profile_settings
    /\ ResolveHistory("toggle")
    /\ UNCHANGED <<requestVars, m_detector, m_run, m_target, r_returned,
                   r_calls>>
    /\ UNCHANGED otherThanResolve

\* request.default_<class> = obj, another object than the current one
replace_default(class, obj) ==
    /\ obj \in DefaultObjects(class)
    /\ \/ /\ class = "Detector"
          /\ obj # default_detector
          /\ default_detector' = obj
          /\ UNCHANGED <<default_run, default_target, default_measurement>>
       \/ /\ class = "Run"
          /\ obj # default_run
          /\ default_run' = obj
          /\ UNCHANGED <<default_detector, default_target,
                         default_measurement>>
       \/ /\ class = "Target"
          /\ obj # default_target
          /\ default_target' = obj
          /\ UNCHANGED <<default_detector, default_run,
                         default_measurement>>
       \/ /\ class = "Measurement"
          /\ obj # default_measurement
          /\ default_measurement' = obj
          /\ UNCHANGED <<default_detector, default_run, default_target>>
    /\ ResolveHistory("replace_default")
    /\ UNCHANGED resolveVarsButHistory
    /\ UNCHANGED otherThanResolve

\* measurement.detector = obj, another object than the current one
replace_own_detector(obj) ==
    /\ obj \in OwnObjects("Detector")
    /\ obj # m_detector
    /\ m_detector' = obj
    /\ ResolveHistory("replace_own")
    /\ UNCHANGED <<requestVars, m_run, m_target,
                   use_default_profile_settings, r_returned, r_calls>>
    /\ UNCHANGED otherThanResolve

Classes == {"Detector", "Run", "Target", "Measurement"}

InitResolve ==
    /\ SampleInit
    /\ disk = {}
    /\ cwd_is_request = TRUE
    /\ ConcIdle
    /\ SettingsInit
    /\ SimulationInit
    /\ TofInit
    /\ CutInit
    /\ MoreInit
    /\ lastOp = "init"
    /\ err = "none"

NextResolve ==
    \/ call_get_used_settings
    \/ get_detector_or_default
    \/ toggle_use_default_profile_settings
    \/ \E class \in Classes : \E obj \in DefaultObjects(class) :
          replace_default(class, obj)
    \/ \E obj \in OwnObjects("Detector") : replace_own_detector(obj)

SpecResolve == InitResolve /\ [][NextResolve]_vars

\* C5: a resolution with use_default_profile_settings true returns the
\* Request's current default detector, run, target and measurement, one
\* with the flag false returns the Measurement's own detector, run, target
\* and the Measurement itself; this holds for every resolution, so also for
\* the first one after the flag was toggled.
C5_ResolveFollowsFlag ==
    /\ lastOp = "get_used_settings" =>
          /\ use_default_profile_settings =>
                r_returned = [detector |-> default_detector,
                              run |-> default_run,
                              target |-> default_target,
                              mesu |-> default_measurement]
          /\ ~use_default_profile_settings =>
                r_returned = [detector |-> m_detector, run |-> m_run,
                              target |-> m_target, mesu |-> Self]
    /\ lastOp = "get_detector_or_default" =>
          r_returned = [detector |-> IF use_default_profile_settings
                                     THEN default_detector
                                     ELSE m_detector]

\* the flag was toggled to false and the very next resolution returned the
\* Measurement's own objects, after an earlier one had been made
C5_Witness ==
    /\ lastOp = "get_used_settings"
    /\ r_prevOp = "toggle"
    /\ r_calls >= 2
    /\ ~use_default_profile_settings
    /\ r_returned.mesu = Self
    /\ r_returned.detector = m_detector

\* C7: a call of _get_used_settings changes no field of the Measurement or
\* of the Request, and what it returns is determined by the flag and the
\* default and own objects at the time of the call.
C7_ResolveIsPure ==
    [][lastOp' = "get_used_settings" =>
          /\ UNCHANGED <<default_detector, default_run, default_target,
                         default_measurement, m_detector, m_run, m_target,
                         use_default_profile_settings>>
          /\ r_returned' = IF use_default_profile_settings
                           THEN [detector |-> default_detector,
                                 run |-> default_run,
                                 target |-> default_target,
                                 mesu |-> default_measurement]
                           ELSE [detector |-> m_detector, run |-> m_run,
                                 target |-> m_target, mesu |-> Self]]_vars

\* a Request default was replaced between two calls made with the flag
\* true, and the second call returned the replacement
C7_Witness ==
    /\ lastOp = "get_used_settings"
    /\ r_prevOp = "replace_default"
    /\ r_calls >= 2
    /\ use_default_profile_settings
    /\ r_returned.detector = default_detector
    /\ default_detector = Object("Detector", "request", 2)

-----------------------------------------------------------------------------
(* Settings handed to MCERD when an ElementSimulation is started *)

otherThanSim == <<sampleVars, concVars, resolveVars, default_measurement,
                  tofVars, cutVars, moreVars>>

\* the Simulation's own detector, target and run
SimulationObject(class) == Object(class, "simulation", 1)

\* run.beam: the beam is the one of the run
BeamOf(run) == [class |-> "Beam", of |-> run]

\* an ElementSimulation whose parameters all differ from the constructor
\* defaults
ElementSimulationOwn ==
    [number_of_ions |-> 3, number_of_preions |-> 2,
     number_of_scaling_ions |-> 7, minimum_scattering_angle |-> 1,
     minimum_main_scattering_angle |-> 25, minimum_energy |-> 2,
     simulation_mode |-> "wide", simulation_type |-> "sct",
     number_of_recoils |-> 11]

\* values the test assigns to the ion counts of an ElementSimulation
IonCounts == {2, 3}

\* the test's expectation, with the detector, target and run taken from the
\* ElementSimulation-level flag instead of the Simulation-level one
get_expected_settings_transitive ==
    LET request_level == use_default_settings
        detector == IF request_level THEN default_detector
                    ELSE SimulationObject("Detector")
        target == IF request_level THEN default_target
                  ELSE SimulationObject("Target")
        run == IF request_level THEN default_run
               ELSE SimulationObject("Run")
        expected_sim == IF use_default_settings
                        THEN default_element_simulation
                        ELSE elem_sim
    IN [simulation_type |-> elem_sim.simulation_type,
        number_of_ions |-> expected_sim.number_of_ions,
        number_of_ions_in_presimu |-> expected_sim.number_of_preions,
        number_of_scaling_ions |-> expected_sim.number_of_scaling_ions,
        number_of_recoils |-> elem_sim.number_of_recoils,
        minimum_scattering_angle |-> expected_sim.minimum_scattering_angle,
        minimum_main_scattering_angle |->
            expected_sim.minimum_main_scattering_angle,
        minimum_energy_of_ions |-> expected_sim.minimum_energy,
        simulation_mode |-> expected_sim.simulation_mode,
        seed_number |-> 1,
        beam |-> BeamOf(run),
        target |-> target,
        detector |-> detector]

\* get_expected_settings(elem_sim, request, simulation) of the test
get_expected_settings ==
    LET detector == IF use_request_settings THEN default_detector
                    ELSE SimulationObject("Detector")
        target == IF use_request_settings THEN default_target
                  ELSE SimulationObject("Target")
        run == IF use_request_settings THEN default_run
               ELSE SimulationObject("Run")
        expected_sim == IF use_default_settings
                        THEN default_element_simulation
                        ELSE elem_sim
    IN [simulation_type |-> elem_sim.simulation_type,
        number_of_ions |-> expected_sim.number_of_ions,
        number_of_ions_in_presimu |-> expected_sim.number_of_preions,
        number_of_scaling_ions |-> expected_sim.number_of_scaling_ions,
        number_of_recoils |-> elem_sim.number_of_recoils,
        minimum_scattering_angle |-> expected_sim.minimum_scattering_angle,
        minimum_main_scattering_angle |->
            expected_sim.minimum_main_scattering_angle,
        minimum_energy_of_ions |-> expected_sim.minimum_energy,
        simulation_mode |-> expected_sim.simulation_mode,
        seed_number |-> 1,
        beam |-> BeamOf(run),
        target |-> target,
        detector |-> detector]

SimHistory(op) ==
    /\ lastOp' = op
    /\ err' = "none"
    /\ UNCHANGED otherThanSim

\* elem_sim.start(1, 1): the settings dictionary is built from the flags of
\* the two scopes and handed to MCERD
start ==
    /\ mcerd_settings' = get_expected_settings
    /\ SimHistory("start")
    /\ UNCHANGED <<default_detector, default_run, default_target,
                   use_request_settings, use_default_settings, elem_sim,
                   default_element_simulation>>

\* sim.use_request_settings = b
set_use_request_settings(b) ==
    /\ use_request_settings' = b
    /\ b # use_request_settings
    /\ SimHistory("set_use_request_settings")
    /\ UNCHANGED <<default_detector, default_run, default_target,
                   use_default_settings, elem_sim,
                   default_element_simulation, mcerd_settings>>

\* elem_sim.use_default_settings = b
set_use_default_settings(b) ==
    /\ use_default_settings' = b
    /\ b # use_default_settings
    /\ SimHistory("set_use_default_settings")
    /\ UNCHANGED <<default_detector, default_run, default_target,
                   use_request_settings, elem_sim,
                   default_element_simulation, mcerd_settings>>

\* elem_sim.number_of_ions = n
set_number_of_ions(n) ==
    /\ n # elem_sim.number_of_ions
    /\ elem_sim' = [elem_sim EXCEPT !.number_of_ions = n]
    /\ SimHistory("set_number_of_ions")
    /\ UNCHANGED <<default_detector, default_run, default_target,
                   use_request_settings, use_default_settings,
                   default_element_simulation, mcerd_settings>>

\* elem_sim.number_of_preions = n
set_number_of_preions(n) ==
    /\ n # elem_sim.number_of_preions
    /\ elem_sim' = [elem_sim EXCEPT !.number_of_preions = n]
    /\ SimHistory("set_number_of_preions")
    /\ UNCHANGED <<default_detector, default_run, default_target,
                   use_request_settings, use_default_settings,
                   default_element_simulation, mcerd_settings>>

\* request.default_<class> = obj while a Simulation exists
replace_simulation_default(class, obj) ==
    /\ obj \in DefaultObjects(class)
    /\ \/ /\ class = "Detector"
          /\ obj # default_detector
          /\ default_detector' = obj
          /\ UNCHANGED <<default_run, default_target>>
       \/ /\ class = "Run"
          /\ obj # default_run
          /\ default_run' = obj
          /\ UNCHANGED <<default_detector, default_target>>
       \/ /\ class = "Target"
          /\ obj # default_target
          /\ default_target' = obj
          /\ UNCHANGED <<default_detector, default_run>>
    /\ SimHistory("replace_default")
    /\ UNCHANGED simVars

InitElementSimulation ==
    /\ SampleInit
    /\ disk = {}
    /\ cwd_is_request = TRUE
    /\ ConcIdle
    /\ SettingsInit
    /\ use_request_settings \in BOOLEAN
    /\ use_default_settings \in BOOLEAN
    /\ elem_sim = ElementSimulationOwn
    /\ default_element_simulation = ElementSimulationDefaults
    /\ mcerd_settings = NoResult
    /\ TofInit
    /\ CutInit
    /\ MoreInit
    /\ lastOp = "init"
    /\ err = "none"

NextElementSimulation ==
    \/ start
    \/ \E b \in BOOLEAN : set_use_request_settings(b)
    \/ \E b \in BOOLEAN : set_use_default_settings(b)
    \/ \E n \in IonCounts : set_number_of_ions(n)
    \/ \E n \in IonCounts : set_number_of_preions(n)
    \/ \E class \in {"Detector", "Run", "Target"} :
          \E obj \in DefaultObjects(class) :
             replace_simulation_default(class, obj)

SpecElementSimulation ==
    InitElementSimulation /\ [][NextElementSimulation]_vars

\* the fields of the settings that use_default_settings selects
IonFields(sim) ==
    [number_of_ions |-> sim.number_of_ions,
     number_of_ions_in_presimu |-> sim.number_of_preions,
     number_of_scaling_ions |-> sim.number_of_scaling_ions,
     minimum_scattering_angle |-> sim.minimum_scattering_angle,
     minimum_main_scattering_angle |-> sim.minimum_main_scattering_angle,
     minimum_energy_of_ions |-> sim.minimum_energy,
     simulation_mode |-> sim.simulation_mode]

Restrict(f, keys) == [k \in keys |-> f[k]]

-----------------------------------------------------------------------------
(* Measurement.generate_tof_in *)

otherThanTof == <<sampleVars, concVars, requestVars, resolveVars, simVars,
                  cutVars, moreVars>>

RECURSIVE ToflenLoop(_, _, _)
\* the while loop: every round overwrites time_of_flight_length with the
\* distance between two neighbouring timing foils
ToflenLoop(settings, i, time_of_flight_length) ==
    IF i - 1 >= 1
    THEN ToflenLoop(settings, i - 1,
                    settings[FoilDistanceFields[detector_tof_foils[i]]]
                       - settings[FoilDistanceFields[
                                      detector_tof_foils[i - 1]]])
    ELSE time_of_flight_length

\* time_of_flight_length, in the unit of the foil distances
Toflen(settings) == ToflenLoop(settings, Len(detector_tof_foils), 0)

\* carbon_foil_thickness, up to the constant factor
CarbonFoilThickness(settings, no_foil) ==
    IF no_foil
    THEN 0
    ELSE settings["layer.thickness"] * settings["layer.density"]

\* the text of tof.in, line by line, each line its label and the values
\* formatted into it
TofIn(settings, global, no_foil) ==
    << <<"Beam", "ion">>,
       <<"Energy", settings["beam.energy"]>>,
       <<"Detector angle", settings["detector.detector_theta"]>>,
       <<"Target angle", settings["target.target_theta"]>>,
       <<"Toflen", Toflen(settings)>>,
       <<"Carbon foil thickness", CarbonFoilThickness(settings, no_foil)>>,
       <<"Target density", settings["reference_density"]>>,
       <<"TOF calibration", settings["detector.tof_slope"],
         settings["detector.tof_offset"]>>,
       <<"Angle calibration", settings["detector.angle_slope"],
         settings["detector.angle_offset"]>>,
       <<"Number of depth steps", settings["number_of_depth_steps"]>>,
       <<"Depth step for stopping", settings["depth_step_for_stopping"]>>,
       <<"Depth step for output", settings["depth_step_for_output"]>>,
       <<"Depths for concentration scaling",
         settings["depth_for_concentration_from"],
         settings["depth_for_concentration_to"]>>,
       <<"Cross section", global["cross_sections"]>>,
       <<"Number of iterations", global["num_iterations"]>>,
       <<"Efficiency directory", "used_efficiencies">> >>

\* hashlib.md5 of a text; two different texts are taken to have different
\* digests
Md5(text) == [md5 |-> text]

\* gf.md5_for_file: the digest of what the file holds
md5_for_file(content) == Md5(content)

\* time.strftime("%Y-%m-%d_%H.%M.%S"): the clock, to the second
Strftime(clock) == clock

\* a comparison that always asks for a rewrite
AlwaysDifferent(digest_file, digest) == TRUE

\* digest_file != digest
DigestsDiffer(digest_file, digest) == digest_file # digest

\* shutil.copyfile(tof_in_file, new_file): the backup named by the time stamp
\* gets the content of tof.in, replacing a backup of the same name
CopyFile(backups, content, stamp) ==
    {b \in backups : b.stamp # stamp}
       \cup {[stamp |-> stamp, content |-> content]}

\* the errors shutil.copyfile may end with when the source file exists
CopyErrors == {"none", "PermissionError"}

\* an except clause that lets every error but the missing file pass
CaughtOnlyMissing(e) == e = "FileNotFoundError"

\* except Exception as e
BackupErrorCaught(e) == TRUE

\* a handler that logs every error it catches
LogsEveryError(e) == TRUE

\* if not isinstance(e, FileNotFoundError): the error is logged
LogsBackupError(e) == e # "FileNotFoundError"

\* Measurement.generate_tof_in(no_foil, directory); copy_error is what the
\* copy to the backup file ends with when tof.in exists
generate_tof_in(no_foil, directory, copy_error) ==
    LET before == IF t_dir[directory] = NoDir
                  THEN [tof_in |-> NoFile, backups |-> {}]
                  ELSE t_dir[directory]
        tof_in == TofIn(t_settings, t_global, no_foil)
        digest == Md5(tof_in)
        digest_file == IF before.tof_in = NoFile
                       THEN NoResult
                       ELSE md5_for_file(before.tof_in)
        different == DigestsDiffer(digest_file, digest)
        e == IF before.tof_in = NoFile
             THEN "FileNotFoundError"
             ELSE copy_error
        backups == IF e = "none"
                   THEN CopyFile(before.backups, before.tof_in,
                                 Strftime(t_clock))
                   ELSE before.backups
        raised == different /\ e # "none" /\ ~BackupErrorCaught(e)
        backup_log == IF e = "none"
                      THEN {"Backed up old tof.in file"}
                      ELSE IF LogsBackupError(e)
                      THEN {"Error when generating tof.in"}
                      ELSE {}
    IN /\ t_dir' = [t_dir EXCEPT ![directory] =
                       IF ~different THEN before
                       ELSE IF raised
                       THEN [tof_in |-> before.tof_in, backups |-> backups]
                       ELSE [tof_in |-> tof_in, backups |-> backups]]
       /\ t_wrote' = (different /\ ~raised)
       /\ t_log' = IF ~different THEN {}
                   ELSE IF raised THEN {}
                   ELSE backup_log \cup {"Generated tof.in"}
       /\ t_last' = [t_last EXCEPT ![directory] =
                        [settings |-> t_settings, global |-> t_global,
                         no_foil |-> no_foil]]
       /\ t_call' = [no_foil |-> no_foil, directory |-> directory,
                     copy_error |-> e]
       /\ lastOp' = "generate_tof_in"
       /\ err' = IF raised THEN e ELSE "none"
       /\ UNCHANGED <<t_settings, t_global, t_clock, t_changes,
                      detector_tof_foils>>
       /\ UNCHANGED otherThanTof

\* a numeric field of the resolved settings is given another value
change_field(f, v) ==
    /\ t_changes < MaxChanges
    /\ f \in ResolvedFields
    /\ v # t_settings[f]
    /\ t_settings' = [t_settings EXCEPT ![f] = v]
    /\ t_changes' = t_changes + 1
    /\ lastOp' = "change_field"
    /\ err' = "none"
    /\ UNCHANGED <<t_global, t_clock, t_dir, t_last, t_call, t_wrote,
                   detector_tof_foils, t_log>>
    /\ UNCHANGED otherThanTof

\* a numeric field of the global settings is given another value
change_global(f, v) ==
    /\ t_changes < MaxChanges
    /\ f \in GlobalFields
    /\ v # t_global[f]
    /\ t_global' = [t_global EXCEPT ![f] = v]
    /\ t_changes' = t_changes + 1
    /\ lastOp' = "change_global"
    /\ err' = "none"
    /\ UNCHANGED <<t_settings, t_clock, t_dir, t_last, t_call, t_wrote,
                   detector_tof_foils, t_log>>
    /\ UNCHANGED otherThanTof

\* a second passes
Tick ==
    /\ t_clock < MaxClock
    /\ t_clock' = t_clock + 1
    /\ lastOp' = "tick"
    /\ err' = "none"
    /\ UNCHANGED <<t_settings, t_global, t_dir, t_last, t_call, t_wrote,
                   t_changes, detector_tof_foils, t_log>>
    /\ UNCHANGED otherThanTof

InitTof ==
    /\ SampleInit
    /\ disk = {}
    /\ cwd_is_request = TRUE
    /\ ConcIdle
    /\ SettingsInit
    /\ SimulationInit
    /\ TofInit
    /\ CutInit
    /\ MoreInit
    /\ lastOp = "init"
    /\ err = "none"

NextTof ==
    \/ \E no_foil \in BOOLEAN : \E directory \in TofDirs :
          generate_tof_in(no_foil, directory, "none")
    \/ \E f \in ResolvedFields : \E v \in FieldValues : change_field(f, v)
    \/ \E f \in GlobalFields : \E v \in FieldValues : change_global(f, v)
    \/ Tick

SpecTof == InitTof /\ [][NextTof]_vars

\* generations whose backup copy may fail, between changes of the settings
NextBackup ==
    \/ \E no_foil \in BOOLEAN : \E directory \in TofDirs :
          \E copy_error \in CopyErrors :
             generate_tof_in(no_foil, directory, copy_error)
    \/ \E f \in ResolvedFields : \E v \in FieldValues : change_field(f, v)
    \/ \E f \in GlobalFields : \E v \in FieldValues : change_global(f, v)

SpecBackup == InitTof /\ [][NextBackup]_vars

\* the tof.in of the Measurement's directory and its backups
TofFile == t_dir["tof_in"]

\* names of the backup files
Stamps(backups) == {b.stamp : b \in backups}

\* the settings have not changed since tof.in was last generated
UnchangedSinceGenerate ==
    /\ t_last["tof_in"] # NoResult
    /\ t_last["tof_in"].settings = t_settings
    /\ t_last["tof_in"].global = t_global

\* C8: a call of generate_tof_in that follows one made with the same resolved
\* settings and the same global settings leaves tof.in and its backups as
\* they are.
C8_SecondGenerateChangesNothing ==
    [][(lastOp' = "generate_tof_in" /\ UnchangedSinceGenerate)
          => t_dir' = t_dir]_vars

\* C8 amended: the same, when the two calls also pass the same no_foil and
\* write into the same directory.
C8_SecondGenerateSameArguments ==
    [][(/\ lastOp' = "generate_tof_in"
        /\ UnchangedSinceGenerate
        /\ t_last["tof_in"].no_foil = t_call'.no_foil)
          => t_dir' = t_dir]_vars

\* a second call with unchanged settings and arguments found the digest of
\* tof.in equal to the one of the new text and wrote nothing
C8_Witness ==
    /\ lastOp = "generate_tof_in"
    /\ ~t_wrote
    /\ TofFile.tof_in = TofIn(t_settings, t_global, t_call.no_foil)
    /\ TofFile.backups = {}

\* C9: when tof.in exists and a numeric field of the resolved settings that
\* tof.in shows has changed since it was generated, the next generate_tof_in
\* with the same arguments adds exactly one backup file, holding the old
\* content, and rewrites tof.in with the new text, whose digest differs from
\* the one of the backup.
C9_ChangeMakesOneBackup ==
    [][(/\ lastOp' = "generate_tof_in"
        /\ TofFile.tof_in # NoFile
        /\ t_call'.copy_error = "none"
        /\ t_last["tof_in"] # NoResult
        /\ t_last["tof_in"].global = t_global
        /\ t_last["tof_in"].no_foil = t_call'.no_foil
        /\ TofIn(t_last["tof_in"].settings, t_global, t_call'.no_foil)
              # TofIn(t_settings, t_global, t_call'.no_foil))
          => \E b \in TofFile'.backups :
                /\ b.stamp \notin Stamps(TofFile.backups)
                /\ TofFile'.backups = TofFile.backups \cup {b}
                /\ b.content = TofFile.tof_in
                /\ TofFile'.tof_in
                      = TofIn(t_settings, t_global, t_call'.no_foil)
                /\ Md5(TofFile'.tof_in) # Md5(b.content)]_vars

\* the timing foils a detector may have among its three foils
TofFoilChoices == {<<1, 2>>, <<1, 3>>, <<2, 3>>, <<1, 2, 3>>}

\* a Measurement whose detector has any of these timing foils, its foils at
\* any distances
InitToflen ==
    /\ SampleInit
    /\ disk = {}
    /\ cwd_is_request = TRUE
    /\ ConcIdle
    /\ SettingsInit
    /\ SimulationInit
    /\ CutInit
    /\ MoreInit
    /\ \E d \in [{"foils[0].distance", "foils[1].distance",
                  "foils[2].distance"} -> FieldValues] :
          t_settings = [f \in ResolvedFields |->
                           IF f \in DOMAIN d THEN d[f] ELSE 1]
    /\ t_global = [f \in GlobalFields |-> 1]
    /\ t_clock = 0
    /\ t_dir = [d \in TofDirs |-> [tof_in |-> NoFile, backups |-> {}]]
    /\ t_last = [d \in TofDirs |-> NoResult]
    /\ t_call = NoResult
    /\ t_wrote = FALSE
    /\ t_changes = 0
    /\ detector_tof_foils \in TofFoilChoices
    /\ t_log = {}

NextToflen ==
    \/ \E no_foil \in BOOLEAN : \E directory \in TofDirs :
          generate_tof_in(no_foil, directory, "none")
    \/ \E f \in ResolvedFields : \E v \in FieldValues : change_field(f, v)

SpecToflen == InitToflen /\ [][NextToflen]_vars

\* the value of the Toflen line of a tof.in text
ToflenLine(text) == text[5][2]

\* the distance of the timing foil at position i of detector.tof_foils
TofFoilDistance(i) ==
    t_settings[FoilDistanceFields[detector_tof_foils[i]]]

\* C21: the Toflen written by generate_tof_in is the distance of the last
\* timing foil minus the distance of the first one (both sides before the
\* division by 1000).
C21_ToflenIsOutermostDistance ==
    (lastOp = "generate_tof_in" /\ Len(detector_tof_foils) >= 2) =>
       ToflenLine(TofFile.tof_in)
          = TofFoilDistance(Len(detector_tof_foils)) - TofFoilDistance(1)

\* C22: a generate_tof_in that meets a tof.in and whose backup copy fails
\* for another reason than a missing source file raises nothing and leaves
\* the new text in tof.in; when the text differs from the one it met, the
\* failure is logged and no backup is added.
C22_FailedBackupStillWrites ==
    [][(/\ lastOp' = "generate_tof_in"
        /\ TofFile.tof_in # NoFile
        /\ t_call'.copy_error # "none")
          => /\ err' = "none"
             /\ TofFile'.tof_in
                   = TofIn(t_settings, t_global, t_call'.no_foil)
             /\ TofFile'.tof_in # TofFile.tof_in
                   => /\ "Error when generating tof.in" \in t_log'
                      /\ "Generated tof.in" \in t_log'
                      /\ TofFile'.backups = TofFile.backups]_vars

C22_Witness ==
    /\ lastOp = "generate_tof_in"
    /\ t_call.copy_error = "PermissionError"
    /\ t_wrote
    /\ err = "none"
    /\ "Error when generating tof.in" \in t_log
    /\ TofFile.tof_in = TofIn(t_settings, t_global, t_call.no_foil)
    /\ TofFile.backups = {}

\* C23: a generate_tof_in that met no tof.in (its copy ended with the error
\* of the missing source file) has written the new text, has left the
\* directory without backup file, has logged no error and has raised
\* nothing.
C23_MissingSourceIsNoError ==
    (lastOp = "generate_tof_in"
        /\ t_call.copy_error = "FileNotFoundError")
       => /\ t_wrote
          /\ TofFile.tof_in = TofIn(t_settings, t_global, t_call.no_foil)
          /\ TofFile.backups = {}
          /\ t_log = {"Generated tof.in"}
          /\ err = "none"

C23_Witness ==
    /\ lastOp = "generate_tof_in"
    /\ t_call.copy_error = "FileNotFoundError"
    /\ t_wrote
    /\ TofFile.tof_in = TofIn(t_settings, t_global, t_call.no_foil)
    /\ TofFile.backups = {}
    /\ t_log = {"Generated tof.in"}

-----------------------------------------------------------------------------
(* Measurement.save_cuts: the events inside each selection *)

otherThanCut == <<sampleVars, concVars, requestVars, resolveVars, simVars,
                  tofVars, moreVars>>

Coords == 0..MaxCoord

Point(x, y) == [x |-> x, y |-> y]

Events == {Point(x, y) : x \in Coords, y \in Coords}

\* the raw data a Measurement may hold
DataSets == UNION {[1..n -> Events] : n \in 0..MaxEvents}

\* a closed selection: its element and the points of its polygon
Selection(element, points) ==
    [element |-> element, points |-> points, is_closed |-> TRUE]

\* the selections a user draws here: a square and a triangle
DrawnSelections ==
    {Selection("H", <<Point(0, 0), Point(2, 0), Point(2, 2), Point(0, 2)>>),
     Selection("He", <<Point(0, 0), Point(3, 0), Point(0, 3)>>)}

\* the edge of a polygon from corner i to the next one, the last edge
\* closing the polygon
EdgeFrom(points, i) ==
    [a |-> points[i], b |-> points[(i % Len(points)) + 1]]

Min(a, b) == IF a <= b THEN a ELSE b

Max(a, b) == IF a >= b THEN a ELSE b

\* p lies on the edge e
OnEdge(p, e) ==
    /\ (e.b.x - e.a.x) * (p.y - e.a.y) = (e.b.y - e.a.y) * (p.x - e.a.x)
    /\ Min(e.a.x, e.b.x) <= p.x
    /\ p.x <= Max(e.a.x, e.b.x)
    /\ Min(e.a.y, e.b.y) <= p.y
    /\ p.y <= Max(e.a.y, e.b.y)

\* a ray from p towards larger x crosses the edge e
Crosses(p, e) ==
    /\ (e.a.y > p.y) # (e.b.y > p.y)
    /\ LET dy == e.b.y - e.a.y
           lhs == (p.x - e.a.x) * dy
           rhs == (p.y - e.a.y) * (e.b.x - e.a.x)
       IN IF dy > 0 THEN lhs < rhs ELSE lhs > rhs

\* polygon.contains_points for one point: inside when the ray crosses an odd
\* number of edges; for a point on an edge the answer is the library's
contains_point(points, p, edge_inside) ==
    LET edges == {EdgeFrom(points, i) : i \in 1..Len(points)}
    IN IF \E e \in edges : OnEdge(p, e)
       THEN edge_inside
       ELSE Cardinality({e \in edges : Crosses(p, e)}) % 2 = 1

\* np.where(points == True): the positions of the events inside the
\* polygon, in event order (counted from 0, as in the source)
RECURSIVE WhereInside(_, _, _, _)
WhereInside(events, points, edge_inside, index) ==
    IF index >= Len(events)
    THEN <<>>
    ELSE (IF contains_point(points, events[index + 1], edge_inside)
          THEN <<index>>
          ELSE <<>>)
            \o WhereInside(events, points, edge_inside, index + 1)

\* points_in_selection: (x, y, event) for every position found, the event
\* number being index + 1
PointsInSelection(events, where) ==
    [j \in 1..Len(where) |->
        <<events[where[j] + 1].x, events[where[j] + 1].y, where[j] + 1>>]

\* a loop that writes a cut for every selection with an event inside
RECURSIVE SaveLoopWrites(_, _, _, _)
SaveLoopWrites(events, sels, edge_inside, i) ==
    IF i > Len(sels)
    THEN [cut_files |-> {}, raised |-> "none"]
    ELSE LET where == WhereInside(events, sels[i].points, edge_inside, 0)
             rest == SaveLoopWrites(events, sels, edge_inside, i + 1)
         IN IF Len(where) > 0
            THEN [cut_files |->
                     {[selection |-> sels[i].element,
                       points |-> PointsInSelection(events, where)]}
                        \cup rest.cut_files,
                  raised |-> rest.raised]
            ELSE rest

\* the for loop over selector.selections.  A selection with no event inside
\* is passed over; for the first one with an event inside, line 1040 reads
\* self.directory_cuts, which no code assigns, and the AttributeError ends
\* the call before a cut file is made.
RECURSIVE SaveLoop(_, _, _, _)
SaveLoop(events, sels, edge_inside, i) ==
    IF i > Len(sels)
    THEN [cut_files |-> {}, raised |-> "none"]
    ELSE LET where == WhereInside(events, sels[i].points, edge_inside, 0)
         IN IF Len(where) > 0
            THEN [cut_files |-> {}, raised |-> "AttributeError"]
            ELSE SaveLoop(events, sels, edge_inside, i + 1)

\* gf.remove_matching_files(directory, exts={".cut"}): no .cut file of the
\* directory is left
remove_matching_files(files) == {}

\* gf.remove_files(selection_file): the file is gone
remove_files(exists) == FALSE

\* the Cuts and the Changes directory as a pair
CutDirs(cuts, changes) == [cuts |-> cuts, changes |-> changes]

\* an emptying that passes over the Changes directory
remove_old_cut_files_cuts_only(dirs) ==
    CutDirs(remove_matching_files(dirs.cuts), dirs.changes)

\* Measurement.__remove_old_cut_files
remove_old_cut_files(dirs) ==
    CutDirs(remove_matching_files(dirs.cuts),
            remove_matching_files(dirs.changes))

\* a branch for the empty selector that leaves the .selections file
SaveCutsEmptyKeepsFile(dirs, file) ==
    [dirs |-> remove_old_cut_files(dirs), selections_file |-> file,
     raised |-> "none"]

\* save_cuts when selector.is_empty(): the old cut files and the
\* .selections file are removed and 0 is returned
SaveCutsEmpty(dirs, file) ==
    [dirs |-> remove_old_cut_files(dirs),
     selections_file |-> remove_files(file), raised |-> "none"]

\* Measurement.save_cuts(); edge_inside is how the polygon test answers for
\* events lying on an edge of a polygon
save_cuts(edge_inside) ==
    /\ lastOp' = "save_cuts"
    /\ UNCHANGED otherThanCut
    /\ cuts_before' = [cuts |-> cut_files, changes |-> changes_cut_files,
                       selections_file |-> selections_file]
    /\ IF selections = <<>>
       THEN LET st == SaveCutsEmpty(CutDirs(cut_files, changes_cut_files),
                                    selections_file)
            IN /\ cut_files' = st.dirs.cuts
               /\ changes_cut_files' = st.dirs.changes
               /\ selections_file' = st.selections_file
               /\ err' = st.raised
       ELSE LET removed_old ==
                   remove_old_cut_files(CutDirs(cut_files,
                                                changes_cut_files))
                st == SaveLoop(data, selections, edge_inside, 1)
            IN /\ cut_files' = removed_old.cuts \cup st.cut_files
               /\ changes_cut_files' = removed_old.changes
               /\ err' = st.raised
               /\ UNCHANGED selections_file
    /\ UNCHANGED <<data, selections>>

\* the last selection of the selector is still open
LastIsOpen(sels) == sels # <<>> /\ ~sels[Len(sels)].is_closed

\* Measurement.add_point for the points of a selection that is not closed
\* yet: the selector holds the new selection as its last one, open; no
\* selection is begun while another is open
add_point(selection) ==
    /\ selection \in DrawnSelections
    /\ ~LastIsOpen(selections)
    /\ \A i \in 1..Len(selections) : selections[i] # selection
    /\ selections' = Append(selections,
                            [selection EXCEPT !.is_closed = FALSE])
    /\ lastOp' = "add_point"
    /\ err' = "none"
    /\ UNCHANGED <<data, cut_files, changes_cut_files, selections_file,
                   cuts_before>>
    /\ UNCHANGED otherThanCut

\* Measurement.end_open_selection: the open selection is closed; with none
\* open, a selection is drawn and closed
end_open_selection(selection) ==
    /\ selection \in DrawnSelections
    /\ \A i \in 1..Len(selections) : selections[i] # selection
    /\ IF LastIsOpen(selections)
       THEN /\ selection.element = selections[Len(selections)].element
            /\ selections' =
                  [selections EXCEPT ![Len(selections)] = selection]
       ELSE selections' = Append(selections, selection)
    /\ lastOp' = "end_open_selection"
    /\ err' = "none"
    /\ UNCHANGED <<data, cut_files, changes_cut_files, selections_file,
                   cuts_before>>
    /\ UNCHANGED otherThanCut

\* Measurement.remove_all
remove_all ==
    /\ selections # <<>>
    /\ selections' = <<>>
    /\ lastOp' = "remove_all"
    /\ err' = "none"
    /\ UNCHANGED <<data, cut_files, changes_cut_files, selections_file,
                   cuts_before>>
    /\ UNCHANGED otherThanCut

\* a cut file left by an earlier session
OldCut == [selection |-> "old", points |-> <<>>]

InitCut ==
    /\ SampleInit
    /\ disk = {}
    /\ cwd_is_request = TRUE
    /\ ConcIdle
    /\ SettingsInit
    /\ SimulationInit
    /\ TofInit
    /\ MoreInit
    /\ data \in DataSets
    /\ selections = <<>>
    /\ cut_files \in {{}, {OldCut}}
    /\ changes_cut_files \in {{}, {OldCut}}
    /\ selections_file \in BOOLEAN
    /\ cuts_before = NoResult
    /\ lastOp = "init"
    /\ err = "none"

NextCut ==
    \/ \E edge_inside \in BOOLEAN : save_cuts(edge_inside)
    \/ \E selection \in DrawnSelections : end_open_selection(selection)
    \/ \E selection \in DrawnSelections : add_point(selection)
    \/ remove_all

SpecCut == InitCut /\ [][NextCut]_vars

\* the triples (x, y, event) of the events inside a selection, in event
\* order, events on an edge counted as the polygon test counts them
InsideTriples(selection, edge_inside) ==
    PointsInSelection(data,
                      WhereInside(data, selection.points, edge_inside, 0))

\* C10: after save_cuts has run with one or more selections, every
\* selection with an event inside its polygon has a cut that holds exactly
\* the triples (x, y, event) of the events inside, the event number counted
\* from 1, in event order; it holds no event from outside the polygon.
C10_CutsHoldInsidePoints ==
    (lastOp = "save_cuts" /\ selections # <<>>) =>
       \A i \in 1..Len(selections) :
          InsideTriples(selections[i], FALSE) # <<>> =>
             \E cut \in cut_files :
                /\ cut.selection = selections[i].element
                /\ \/ cut.points = InsideTriples(selections[i], FALSE)
                   \/ cut.points = InsideTriples(selections[i], TRUE)

\* the .cut files present, in the Cuts and in the Changes directory
PresentCuts == cut_files \cup changes_cut_files

\* C11: once save_cuts has run, no cut file that it met when it was called
\* is still present: every cut file present was written by the most recent
\* save_cuts, whatever selection edits came before or after it.
C11_NoStaleCuts ==
    cuts_before # NoResult =>
       PresentCuts \cap (cuts_before.cuts \cup cuts_before.changes) = {}

\* an extraction over one or more selections completed where both
\* directories held a cut file of an earlier extraction, and neither is left
C11_Witness ==
    /\ lastOp = "save_cuts"
    /\ err = "none"
    /\ selections # <<>>
    /\ cuts_before # NoResult
    /\ OldCut \in cuts_before.cuts
    /\ OldCut \in cuts_before.changes
    /\ OldCut \notin PresentCuts

\* C12: after save_cuts has run with no selections, no cut file remains, the
\* .selections file does not exist, and no error was raised, whatever files
\* existed before.
C12_EmptySelectorClearsAll ==
    (lastOp = "save_cuts" /\ selections = <<>>) =>
       /\ PresentCuts = {}
       /\ ~selections_file
       /\ err = "none"

\* save_cuts ran with no selections where cut files and the .selections
\* file existed
C12_Witness ==
    /\ lastOp = "save_cuts"
    /\ selections = <<>>
    /\ cuts_before # NoResult
    /\ cuts_before.cuts = {OldCut}
    /\ cuts_before.changes = {OldCut}
    /\ cuts_before.selections_file
    /\ PresentCuts = {}
    /\ ~selections_file

\* C18: a save_cuts that failed before its last write leaves the cut files
\* it met as they were: those of Cuts and those of Changes are still there
\* and no other cut file is.
C18_FailedSaveKeepsOldCuts ==
    (lastOp = "save_cuts" /\ err # "none") =>
       /\ cut_files = cuts_before.cuts
       /\ changes_cut_files = cuts_before.changes

-----------------------------------------------------------------------------
(* Measurement.load_data: the .asc data file and its .npy cache *)

otherThanLoad == <<sampleVars, concVars, requestVars, resolveVars, simVars,
                   tofVars, selections, cut_files, changes_cut_files,
                   selections_file, cuts_before, renameVars, fromFileVars,
                   pointVars>>

\* np.iinfo(np.uint16).max
Uint16Max == 65535

\* integers an .asc line may hold
RawValues == {-1, 0, Uint16Max, Uint16Max + 1, 70000}

\* one line of an .asc file: split[0] and split[1]
AscLines == RawValues \X RawValues

\* a data file and what it holds
DataFile(content) == [content |-> content]

\* the .asc files of up to MaxLines lines
AscFiles == {DataFile(lines) :
                lines \in UNION {[1..n -> AscLines] : n \in 0..MaxLines}}

\* an array cached by an earlier load
CachedArray == DataFile(<<Point(0, 0)>>)

\* int_array: one column per line, int(split[0]) and int(split[1])
IntArray(lines) == [i \in 1..Len(lines) |-> Point(lines[i][1], lines[i][2])]

\* int_array.max()
ArrayMax(array) ==
    LET values == {array[i].x : i \in 1..Len(array)}
                     \cup {array[i].y : i \in 1..Len(array)}
    IN CHOOSE v \in values : \A w \in values : w <= v

\* the cast of one value to np.uint16: the low 16 bits
AstypeUint16(v) == v % (Uint16Max + 1)

\* int_array.astype(np.uint16)
Astype(array) ==
    [i \in 1..Len(array) |->
        Point(AstypeUint16(array[i].x), AstypeUint16(array[i].y))]

\* Measurement.load_data().  Every exception raised in its body is caught
\* and logged; nothing is raised to the caller
load_data ==
    /\ lastOp' = "load_data"
    /\ err' = "none"
    /\ UNCHANGED otherThanLoad
    /\ UNCHANGED asc_file
    /\ IF npy_file # NoFile
       THEN /\ data' = npy_file.content
            /\ loaded_from' = "npy"
            /\ load_log' = "none"
            /\ UNCHANGED npy_file
       ELSE IF asc_file # NoFile
       THEN LET int_array == IntArray(asc_file.content)
            IN /\ loaded_from' = "asc"
               /\ IF Len(int_array) = 0
                  THEN \* max() of an empty array raises ValueError
                       /\ load_log' = "Unexpected error"
                       /\ UNCHANGED <<data, npy_file>>
                  ELSE IF ArrayMax(int_array) > Uint16Max
                  THEN /\ load_log' = "Unexpected error"
                       /\ UNCHANGED <<data, npy_file>>
                  ELSE /\ npy_file' = DataFile(Astype(int_array))
                       /\ data' = Astype(int_array)
                       /\ load_log' = "none"
       ELSE /\ loaded_from' = "none"
            /\ load_log' = "none"
            /\ UNCHANGED <<data, npy_file>>

\* the .npy cache is deleted
remove_npy ==
    /\ npy_file # NoFile
    /\ npy_file' = NoFile
    /\ lastOp' = "remove_npy"
    /\ err' = "none"
    /\ UNCHANGED <<data, asc_file, load_log, loaded_from>>
    /\ UNCHANGED otherThanLoad

InitLoad ==
    /\ PointInit
    /\ SampleInit
    /\ disk = {}
    /\ cwd_is_request = TRUE
    /\ ConcIdle
    /\ SettingsInit
    /\ SimulationInit
    /\ TofInit
    /\ CutInit
    /\ asc_file \in AscFiles \cup {NoFile}
    /\ npy_file \in {NoFile, CachedArray}
    /\ load_log = "none"
    /\ loaded_from = "none"
    /\ RenameInit
    /\ FromFileInit
    /\ lastOp = "init"
    /\ err = "none"

NextLoad == load_data \/ remove_npy

SpecLoad == InitLoad /\ [][NextLoad]_vars

\* some value of the .asc file is outside 0..Uint16Max
OutOfRange(lines) ==
    \E i \in 1..Len(lines) : \E k \in 1..2 :
       lines[i][k] < 0 \/ lines[i][k] > Uint16Max

\* C13: a load_data that read the .asc file leaves in self.data and in the
\* .npy file only arrays whose values are those of the file; when a value
\* of the file is outside the range of the 16-bit unsigned type the load
\* fails with an error and stores nothing.
C13_LoadKeepsValues ==
    (lastOp = "load_data" /\ loaded_from = "asc") =>
       /\ npy_file # NoFile =>
             npy_file = DataFile(IntArray(asc_file.content))
       /\ load_log = "none" => data = IntArray(asc_file.content)
       /\ OutOfRange(asc_file.content) =>
             (load_log # "none" /\ npy_file = NoFile)

\* C14: a load_data that met a value above the range of the storage type
\* raises the range error to its caller.
C14_RangeErrorSurfaced ==
    (/\ lastOp = "load_data"
     /\ loaded_from = "asc"
     /\ Len(asc_file.content) > 0
     /\ ArrayMax(IntArray(asc_file.content)) > Uint16Max)
       => err = "ValueError"

-----------------------------------------------------------------------------
(* Measurement.rename: the entity, its .info file and its .cut files *)

otherThanRename == <<sampleVars, concVars, requestVars, resolveVars, simVars,
                     tofVars, cutVars, loadVars, fromFileVars, pointVars>>

\* the steps of rename, in the order of its body
RenameSteps == <<"rename_entity", "rename_info_file", "rename_cut_files">>

\* the places where the file system may refuse an operation of rename
FailPoints == {"none", "rename_entity", "remove_matching_files",
               "_info_to_file", "rename_file"}

\* what rename works on: the names and files, the error raised so far and
\* the steps completed
RenameState(name, directory, infos, cuts, raised, done) ==
    [name |-> name, directory |-> directory, info_files |-> infos,
     cuts |-> cuts, raised |-> raised, done |-> done]

\* the error a failed rename of the entity reports
RenameEntityError == "Failed to rename entity: OSError"

\* gf.rename_entity(self, new_name): the directory and the name are changed
\* together, or an error is raised and neither is
rename_entity(st, new_name, fail) ==
    IF fail = "rename_entity"
    THEN [st EXCEPT !.raised = RenameEntityError]
    ELSE [st EXCEPT !.name = new_name, !.directory = new_name,
                    !.done = Append(@, "rename_entity")]

\* an except clause that re-raises the error as it came
ReraiseUnchanged(prefix, e) == e

\* except OSError as e: e.args = f"<prefix>: {e}",; raise
WrapOSError(prefix, e) == prefix \o ": " \o e

\* Measurement.rename_info_file: remove the .info files, write a new one
rename_info_file(st, fail) ==
    IF fail = "remove_matching_files"
    THEN [st EXCEPT !.raised = "OSError"]
    ELSE IF fail = "_info_to_file"
    THEN [st EXCEPT !.info_files = {}, !.raised = "OSError"]
    ELSE [st EXCEPT !.info_files = {st.name},
                    !.done = Append(@, "rename_info_file")]

\* the for loop of rename_cut_files over (*cuts, *splits); gf.rename_file
\* of the cut at position fail_at raises
RenameCutLoop(cuts, name, fail_at) ==
    [i \in 1..Len(cuts) |->
        IF fail_at = 0 \/ i < fail_at
        THEN CutName(name, cuts[i].rest)
        ELSE cuts[i]]

\* Measurement.rename_cut_files
rename_cut_files(st, fail, fail_at) ==
    IF fail = "rename_file" /\ fail_at \in 1..Len(st.cuts)
    THEN [st EXCEPT !.cuts = RenameCutLoop(st.cuts, st.name, fail_at),
                    !.raised = "OSError"]
    ELSE [st EXCEPT !.cuts = RenameCutLoop(st.cuts, st.name, 0),
                    !.done = Append(@, "rename_cut_files")]

\* a try block around a step: an OSError leaves it with the step's prefix
TryStep(st, after, prefix) ==
    IF st.raised # "none"
    THEN st
    ELSE IF after.raised # "none"
    THEN [after EXCEPT !.raised = WrapOSError(prefix, after.raised)]
    ELSE after

\* Measurement.rename(new_name)
rename(new_name, fail, fail_at) ==
    /\ lastOp' = "rename"
    /\ UNCHANGED otherThanRename
    /\ LET s0 == RenameState(m_name, m_directory, info_files, named_cuts,
                             "none", <<>>)
           s1 == rename_entity(s0, new_name, fail)
           s2 == IF s1.raised # "none" THEN s1
                 ELSE TryStep(s1, rename_info_file(s1, fail),
                              "Failed to rename info file")
           s3 == IF s2.raised # "none" THEN s2
                 ELSE TryStep(s2, rename_cut_files(s2, fail, fail_at),
                              "Failed to rename .cut files")
       IN /\ m_name' = s3.name
          /\ m_directory' = s3.directory
          /\ info_files' = s3.info_files
          /\ named_cuts' = s3.cuts
          /\ err' = s3.raised
          /\ rename_call' = [new_name |-> new_name, done |-> s3.done,
                             name |-> m_name, info_files |-> info_files,
                             cuts |-> named_cuts]

\* a cut file is saved under the Measurement's name
save_named_cut ==
    /\ Len(named_cuts) < MaxCuts
    /\ named_cuts' = Append(named_cuts, CutName(m_name, Len(named_cuts)))
    /\ lastOp' = "save_named_cut"
    /\ err' = "none"
    /\ UNCHANGED <<m_name, m_directory, info_files, rename_call>>
    /\ UNCHANGED otherThanRename

InitRename ==
    /\ PointInit
    /\ SampleInit
    /\ disk = {}
    /\ cwd_is_request = TRUE
    /\ ConcIdle
    /\ SettingsInit
    /\ SimulationInit
    /\ TofInit
    /\ CutInit
    /\ LoadInit
    /\ RenameInit
    /\ FromFileInit
    /\ lastOp = "init"
    /\ err = "none"

NextRename ==
    \/ \E new_name \in MeasurementNames, fail \in FailPoints,
          fail_at \in 1..MaxCuts : rename(new_name, fail, fail_at)
    \/ save_named_cut

SpecRename == InitRename /\ [][NextRename]_vars

\* the first n steps of rename
StepsDone(n) == SubSeq(RenameSteps, 1, n)

\* the message that names a step
StepMessage ==
    [rename_entity |-> "Failed to rename entity: OSError",
     rename_info_file |-> "Failed to rename info file: OSError",
     rename_cut_files |-> "Failed to rename .cut files: OSError"]

\* C15: after rename the completed steps are the first n of (rename the
\* entity, rewrite the .info file, rename the cut files); with all three
\* done there is no error, the name is the new one, the .info file is the one
\* of the new name and every cut file starts with the new name; with fewer
\* done the error names step n+1, and no step after it has acted: the name
\* is the old one if the entity was not renamed, the cut files are the old
\* ones if the .info step failed.
C15_RenameStepsInOrder ==
    lastOp = "rename" =>
       LET n == Len(rename_call.done)
       IN /\ rename_call.done = StepsDone(n)
          /\ n = 3 =>
                /\ err = "none"
                /\ m_name = rename_call.new_name
                /\ info_files = {m_name}
                /\ \A i \in 1..Len(named_cuts) : named_cuts[i].name = m_name
          /\ n < 3 => err = StepMessage[RenameSteps[n + 1]]
          /\ n = 0 => /\ m_name = rename_call.name
                      /\ info_files = rename_call.info_files
          /\ n < 2 => named_cuts = rename_call.cuts

C15_Witness ==
    /\ lastOp = "rename"
    /\ Len(rename_call.done) = 1
    /\ err = StepMessage["rename_info_file"]
    /\ rename_call.name # rename_call.new_name
    /\ m_name = rename_call.new_name
    /\ Len(named_cuts) = MaxCuts
    /\ named_cuts = rename_call.cuts

\* C16: the directory of a created Measurement holds an .info file, also
\* after a rename that succeeded or failed.
C16_InfoFileAlwaysPresent == info_files # {}

-----------------------------------------------------------------------------
(* Measurement.from_file: the .measurement and the .profile settings files *)

otherThanFromFile == <<sampleVars, concVars, requestVars, resolveVars,
                       simVars, tofVars, cutVars, loadVars, renameVars,
                       pointVars>>

\* what from_file may meet at the path of a settings file: no path at all
\* (None), no file, a file that is not JSON, JSON without an expected key,
\* a complete file
FileStates == {"None", "missing", "invalid_json", "no_key", "ok"}

\* the exception that reading a settings file in that state raises
ReadError(state) ==
    CASE state = "None" -> "AttributeError"
      [] state = "missing" -> "OSError"
      [] state = "invalid_json" -> "JSONDecodeError"
      [] state = "no_key" -> "KeyError"
      [] OTHER -> "none"

\* except (OSError, KeyError, AttributeError) of the .measurement part
MeasurementCaught == {"OSError", "KeyError", "AttributeError"}

\* the except clause of the .profile part
ProfileCaught == {"OSError", "KeyError", "AttributeError", "JSONDecodeError"}

\* the default values of Measurement.__init__; profile_modification_time
\* None becomes time.time()
ConstructorProfile(now) ==
    Profile(ProfGen("Default", now), [k \in DepthKeys |-> 0], 0,
            [k \in CompKeys |-> 0])

\* str(b) of a bool written in lower case
StrLower(b) == IF b THEN "true" ELSE "false"

\* str(self.use_default_profile_settings)
Str(b) == IF b THEN "True" ELSE "False"

\* the Measurement object, as far as its files are concerned
LoadedMeasurement(profile, flag, settings_read, settings_name) ==
    [profile |-> profile, use_default_profile_settings |-> flag,
     settings_read |-> settings_read,
     measurement_setting_file_name |-> settings_name]

\* Measurement._profile_to_file
profile_to_file(obj, now) ==
    ProfileFile(
        "ok",
        [name |-> obj.profile.gen.profile_name,
         modification_time |-> Ctime(now),
         modification_time_unix |-> obj.profile.gen.profile_modification_time,
         use_default_settings |-> Str(obj.use_default_profile_settings)],
        [k \in DepthKeys |-> obj.profile.depth[k]],
        [channel_width |-> obj.profile.channel_width],
        [k \in CompKeys |-> obj.profile.comp[k]])

\* Measurement._measurement_to_file
measurement_to_file(obj, now) ==
    MeasurementFile("ok", obj.measurement_setting_file_name, Ctime(now), now)

\* Measurement._info_to_file
info_to_file(obj, now) == InfoFile(Ctime(now), now)

\* Measurement.to_file of obj at time now, as far as the three files go: the
\* .measurement file is read before it is rewritten
ToFile(obj, now) ==
    IF f_measurement.state = "invalid_json"
    THEN [raised |-> "JSONDecodeError", info |-> f_info,
          measurement |-> f_measurement, profile |-> f_profile]
    ELSE [raised |-> "none", info |-> info_to_file(obj, now),
          measurement |-> measurement_to_file(obj, now),
          profile |-> profile_to_file(obj, now)]

\* the part of from_file that reads the .profile file
ReadProfile(file) ==
    [profile |-> Profile(ProfGen(file.general.name,
                                 file.general.modification_time_unix),
                         file.depth_profiles,
                         file.energy_spectra.channel_width,
                         file.composition_changes),
     use_default_profile_settings |->
         file.general.use_default_settings = "True"]

\* Measurement.from_file(info_file, measurement_file, profile_file, request)
\* on the files of the directory; the constructor it ends with saves the
\* new object (save_on_creation)
from_file ==
    /\ f_clock < MaxTime
    /\ lastOp' = "from_file"
    /\ UNCHANGED otherThanFromFile
    /\ UNCHANGED default_profile
    /\ f_clock' = f_clock + 1
    /\ from_file_call' = [measurement_file |-> f_measurement.state,
                          profile_file |-> f_profile]
    /\ LET e1 == ReadError(f_measurement.state)
           e2 == ReadError(f_profile.state)
           now == f_clock + 1
           log1 == IF e1 # "none" THEN {"measurement_file"} ELSE {}
           name == IF e1 = "none" THEN f_measurement.name ELSE "Default"
           obj == IF e2 \notin ProfileCaught
                  THEN LET r == ReadProfile(f_profile)
                       IN LoadedMeasurement(r.profile,
                                            r.use_default_profile_settings,
                                            e1 = "none", name)
                  ELSE IF default_profile = NoObj
                  THEN LoadedMeasurement(ConstructorProfile(now), TRUE,
                                         e1 = "none", name)
                  ELSE LoadedMeasurement(
                           Profile(ProfGen(
                                       default_profile.gen.profile_name,
                                       default_profile.gen
                                          .profile_modification_time),
                                   default_profile.depth,
                                   default_profile.channel_width,
                                   default_profile.comp),
                           TRUE, e1 = "none", name)
           saved == ToFile(obj, now)
       IN IF e1 # "none" /\ e1 \notin MeasurementCaught
          THEN /\ err' = e1
               /\ loaded' = NoResult
               /\ from_file_log' = {}
               /\ UNCHANGED <<f_info, f_measurement, f_profile>>
          ELSE /\ err' = saved.raised
               /\ loaded' = obj
               /\ from_file_log' =
                     IF e2 \notin ProfileCaught
                     THEN log1
                     ELSE log1 \cup {"profile_file"}
               /\ f_info' = saved.info
               /\ f_measurement' = saved.measurement
               /\ f_profile' = saved.profile

\* Measurement.to_file of the loaded Measurement
to_file ==
    /\ f_clock < MaxTime
    /\ loaded # NoResult
    /\ lastOp' = "to_file"
    /\ UNCHANGED otherThanFromFile
    /\ UNCHANGED <<default_profile, loaded, from_file_log, from_file_call>>
    /\ f_clock' = f_clock + 1
    /\ LET saved == ToFile(loaded, f_clock + 1)
       IN /\ err' = saved.raised
          /\ f_info' = saved.info
          /\ f_measurement' = saved.measurement
          /\ f_profile' = saved.profile

\* the Request is given another default measurement, or none
set_default_profile(profile) ==
    /\ default_profile' = profile
    /\ default_profile' # default_profile
    /\ lastOp' = "set_default_profile"
    /\ err' = "none"
    /\ UNCHANGED <<loaded, from_file_log, from_file_call, f_clock, f_info,
                   f_measurement, f_profile>>
    /\ UNCHANGED otherThanFromFile

\* C24: every write of the .info, .measurement and .profile file of a
\* Measurement stores, as string and as number, the time of that write, so
\* that the number of a later write is greater than that of an earlier one.
C24_WritesStampWriteTime ==
    (/\ lastOp \in {"from_file", "to_file"}
     /\ err = "none"
     /\ loaded # NoResult)
       => /\ f_info = InfoFile(Ctime(f_clock), f_clock)
          /\ f_measurement.modification_time = Ctime(f_clock)
          /\ f_measurement.modification_time_unix = f_clock
          /\ f_profile.general.modification_time = Ctime(f_clock)
          /\ f_profile.general.modification_time_unix = f_clock

\* the .profile files a directory may hold when the Measurement is opened
ProfileFiles ==
    {ProfileFile(st, NoObj, NoObj, NoObj, NoObj) :
        st \in FileStates \ {"ok"}}
       \cup {profile_to_file(LoadedMeasurement(UniformProfile(v), f, TRUE,
                                               "Default"), 1) :
                v \in FieldValues, f \in BOOLEAN}

InitFromFile ==
    /\ PointInit
    /\ SampleInit
    /\ disk = {}
    /\ cwd_is_request = TRUE
    /\ ConcIdle
    /\ SettingsInit
    /\ SimulationInit
    /\ TofInit
    /\ CutInit
    /\ LoadInit
    /\ RenameInit
    /\ default_profile = UniformProfile(1)
    /\ loaded = NoResult
    /\ from_file_log = {}
    /\ from_file_call = NoResult
    /\ f_clock = 1
    /\ f_info = InfoFile(Ctime(1), 1)
    /\ f_measurement \in
          {MeasurementFile(st, "Default", Ctime(1), 1) : st \in FileStates}
    /\ f_profile \in ProfileFiles
    /\ lastOp = "init"
    /\ err = "none"

NextFromFile ==
    \/ from_file
    \/ to_file
    \/ \E v \in FieldValues : set_default_profile(UniformProfile(v))
    \/ set_default_profile(NoObj)

SpecFromFile == InitFromFile /\ [][NextFromFile]_vars

\* the profiles that differ from the uniform one in at most one parameter
Profiles ==
    LET p == UniformProfile(1)
    IN {p}
         \cup {[p EXCEPT !.depth[k] = v] : k \in DepthKeys, v \in FieldValues}
         \cup {[p EXCEPT !.comp[k] = v] : k \in CompKeys, v \in FieldValues}
         \cup {[p EXCEPT !.channel_width = v] : v \in FieldValues}

\* a Measurement has been created with some profile and saved on creation
InitProfile ==
    /\ PointInit
    /\ SampleInit
    /\ disk = {}
    /\ cwd_is_request = TRUE
    /\ ConcIdle
    /\ SettingsInit
    /\ SimulationInit
    /\ TofInit
    /\ CutInit
    /\ LoadInit
    /\ RenameInit
    /\ default_profile = UniformProfile(1)
    /\ loaded \in {LoadedMeasurement(p, f, TRUE, "Default") :
                      p \in Profiles, f \in BOOLEAN}
    /\ from_file_log = {}
    /\ from_file_call = NoResult
    /\ f_clock = 1
    /\ f_info = info_to_file(loaded, 1)
    /\ f_measurement = measurement_to_file(loaded, 1)
    /\ f_profile = profile_to_file(loaded, 1)
    /\ lastOp = "init"
    /\ err = "none"

NextProfile ==
    \/ to_file
    \/ from_file

SpecProfile == InitProfile /\ [][NextProfile]_vars

\* C25: a profile written by _profile_to_file and read back by from_file
\* gives the same use_default_profile_settings, stored as the string "True"
\* or "False", and the same reference density, depth steps, concentration
\* bounds, channel width, reference cut, number of splits and normalization.
C25_ProfileRoundTrip ==
    [][lastOp' = "from_file"
         => /\ f_profile = profile_to_file(loaded, f_clock)
            /\ f_profile.general.use_default_settings \in {"True", "False"}
            /\ err' = "none"
            /\ loaded'.use_default_profile_settings
                  = loaded.use_default_profile_settings
            /\ loaded'.profile.depth = loaded.profile.depth
            /\ loaded'.profile.channel_width = loaded.profile.channel_width
            /\ loaded'.profile.comp = loaded.profile.comp]_vars

\* a profile that is not the uniform one, with the flag off, has been
\* written and read back
C25_Witness ==
    /\ lastOp = "from_file"
    /\ from_file_call.profile_file.general.use_default_settings = "False"
    /\ ~loaded.use_default_profile_settings
    /\ loaded.profile.comp["normalization"]
          # loaded.profile.depth["reference_density"]

\* C29: Measurement.from_file changes the content of no file of the
\* Measurement's directory: the .info, .measurement and .profile file are
\* after the load what they were before it.
C29_FromFileIsReadOnly ==
    [][lastOp' = "from_file"
         => /\ f_info' = f_info
            /\ f_measurement' = f_measurement
            /\ f_profile' = f_profile]_vars

\* C17: from_file given a settings file that is missing or malformed raises
\* nothing, returns a Measurement that has the profile parameters of the
\* Request's default measurement and use_default_profile_settings true, and
\* has logged the file.
C17_FallbackToDefaults ==
    (/\ lastOp = "from_file"
     /\ \/ from_file_call.measurement_file # "ok"
        \/ from_file_call.profile_file.state # "ok")
       => /\ err = "none"
          /\ loaded # NoResult
          /\ loaded.use_default_profile_settings
          /\ default_profile # NoObj => loaded.profile = default_profile
          /\ from_file_log # {}

-----------------------------------------------------------------------------
(* The increment at the end of a re-scan *)

\* the serial of the last child, in the order of the listing, that matches
\* the prefix and carries a serial
LastSerial(prefix) ==
    LET listing == SortNames(SerialChildren(prefix))
    IN IntOf(Slice2(listing[Len(listing)].rest))

\* C20: after a re-scan of a Sample that was opened with its counters at 1,
\* the counter is 1 when no child matches the prefix, and is one more than
\* the serial read last when children that match the prefix and carry a
\* serial were found.
C20_RescanIncrementsIffChildFound ==
    /\ (lastOp = "get_measurements_files" /\ err = "none") =>
          /\ {e \in disk : e.prefix = MeasurementPrefix} = {}
                => running_int_measurement = 1
          /\ SerialChildren(MeasurementPrefix) # {}
                => running_int_measurement
                      = LastSerial(MeasurementPrefix) + 1
    /\ (lastOp = "get_simulation_files" /\ err = "none") =>
          /\ {e \in disk : e.prefix = SimulationPrefix} = {}
                => running_int_simulation = 1
          /\ SerialChildren(SimulationPrefix) # {}
                => running_int_simulation
                      = LastSerial(SimulationPrefix) + 1

-----------------------------------------------------------------------------
(* Opening a Measurement from the directory a creation made *)

\* Measurements.add_measurement_file given the .info file of an existing
\* Measurement directory: the serial is parsed from the directory name, and
\* the Measurement is put into the map of the Request and into that of the
\* Sample
add_measurement_file_info(tab_id, e) ==
    /\ e \in disk
    /\ e.prefix = MeasurementPrefix
    /\ e.isdir
    /\ e.desc
    /\ lastOp' = "add_measurement_file_info"
    /\ UNCHANGED otherThanSample
    /\ UNCHANGED <<running_int_measurement, running_int_simulation,
                   sample_simulations, request_simulations, disk,
                   cwd_is_request, issued_measurement, issued_simulation,
                   removed>>
    /\ LET field == Slice2(e.rest)
           measurement == Entity("Measurement", e.rest[Len(e.rest)], tab_id,
                                 IntOf(field), EntryName(e))
       IN IF IntParses(field)
          THEN /\ request_measurements' =
                     [request_measurements EXCEPT ![tab_id] = measurement]
               /\ sample_measurements' =
                     [sample_measurements EXCEPT ![tab_id] = measurement]
               /\ err' = "none"
          ELSE /\ err' = "ValueError"
               /\ UNCHANGED <<request_measurements, sample_measurements>>

\* a Sample whose counter a re-scan or earlier creations have brought to any
\* value up to MaxSerial
InitReopen ==
    /\ running_int_measurement \in 1..MaxSerial
    /\ running_int_simulation = 1
    /\ sample_measurements = EmptyTabs
    /\ request_measurements = EmptyTabs
    /\ sample_simulations = EmptyTabs
    /\ request_simulations = EmptyTabs
    /\ issued_measurement = <<>>
    /\ issued_simulation = <<>>
    /\ removed = FALSE
    /\ lastOp = "init"
    /\ err = "none"
    /\ disk = {}
    /\ cwd_is_request = TRUE
    /\ ConcIdle
    /\ SettingsIdle

NextReopen ==
    \/ \E t \in TabIds, n \in Names : add_measurement_file_import(t, n)
    \/ \E t \in TabIds, n \in Names, stem \in Names, ok \in BOOLEAN :
          add_measurement_file_new(t, n, stem, ok)
    \/ \E t \in TabIds, e \in disk : add_measurement_file_info(t, e)

SpecReopen == InitReopen /\ [][NextReopen]_vars

\* C19: a Measurement opened from a directory that a creation named
\* '<prefix><serial:02d>-<name>' has the serial the creation handed out.
C19_FormatThenParseIsIdentity ==
    (lastOp = "add_measurement_file_info" /\ err = "none") =>
       \A t \in TabIds :
          request_measurements[t] # NoObj
             => request_measurements[t].directory
                   = DirectoryName(MeasurementPrefix,
                                   request_measurements[t].serial_number,
                                   request_measurements[t].name)

\* the serial that the name of a directory carries: the two characters that
\* follow the prefix, read as an integer
SerialInName(d) == IntOf(Slice2(d.rest))

\* C27: the serial_number of every Measurement and Simulation that a Sample
\* holds is the serial in the name of the directory of that entity.
C27_SerialMatchesDirectory ==
    \A t \in TabIds :
       /\ sample_measurements[t] # NoObj
             => sample_measurements[t].serial_number
                   = SerialInName(sample_measurements[t].directory)
       /\ sample_simulations[t] # NoObj
             => sample_simulations[t].serial_number
                   = SerialInName(sample_simulations[t].directory)

\* C28: after every add_measurement_file the map of the Sample and the map
\* of the Request agree on each tab: either both hold the same new
\* Measurement there or neither was changed.
C28_MapsAgreeAfterAdd ==
    [][lastOp' \in {"add_measurement_file", "add_measurement_file_info"}
         => \A t \in TabIds :
               \/ /\ sample_measurements'[t] = sample_measurements[t]
                  /\ request_measurements'[t] = request_measurements[t]
               \/ /\ sample_measurements'[t] # NoObj
                  /\ sample_measurements'[t] = request_measurements'[t]]_vars

-----------------------------------------------------------------------------
(* The polygon point editor: pressing, dragging and releasing a corner *)

otherThanPoint == <<sampleVars, concVars, requestVars, resolveVars, simVars,
                    tofVars, cutVars, loadVars, renameVars, fromFileVars>>

\* `if o:` for o that is None or an integer
Truthy(o) == o # None /\ o.value # 0

\* find_closest_point(self.coord, point): the points of the grid lie further
\* apart than the select radius, so a corner is within the radius when it
\* lies at the point; of several the one with the least index is first in
\* the sorted list.  The answer is that index, or None.
find_closest_point(plist, point) ==
    LET found == {i \in 1..Len(plist) : plist[i] = point}
    IN IF found = {}
       THEN None
       ELSE Some((CHOOSE i \in found : \A j \in found : i <= j) - 1)

\* calculate_midpoints(points), each midpoint as the sum of the two corners,
\* which is twice the midpoint
calculate_midpoints(points) ==
    [i \in 1..Len(points) |->
        [x |-> points[i].x + points[(i % Len(points)) + 1].x,
         y |-> points[i].y + points[(i % Len(points)) + 1].y]]

\* find_closest_point(self.midpoint_coord, point)
find_closest_midpoint(points, point) ==
    find_closest_point(calculate_midpoints(points),
                       [x |-> 2 * point.x, y |-> 2 * point.y])

\* list.insert(index, point) and del list[index], indices counted from 0
ListInsert(list, index, point) ==
    SubSeq(list, 1, index) \o <<point>> \o SubSeq(list, index + 1, Len(list))

ListDelete(list, index) ==
    SubSeq(list, 1, index) \o SubSeq(list, index + 2, Len(list))

\* MainWindow.button_press_handler for a press of button at point; a button
\* that is down is not pressed again
button_press_handler(point, button) ==
    LET cPoint == find_closest_point(coord, point)
        starts == cPoint # None /\ button = 1
        mid_point == find_closest_midpoint(coord, point)
        inserts == mid_point # None /\ button = 1
        coord2 == IF inserts
                  THEN ListInsert(coord, mid_point.value + 1, point)
                  ELSE coord
        cPoint3 == find_closest_point(coord2, point)
        removes == cPoint3 # None /\ button = 3
    IN /\ button \notin held
       /\ held' = held \cup {button}
       /\ starts => next_cid <= MaxCid
       /\ inserts => Len(coord) < MaxPoints
       /\ point_to_move' = IF starts THEN Some(cPoint.value)
                           ELSE point_to_move
       /\ move_handler_id' = IF starts THEN Some(next_cid)
                             ELSE move_handler_id
       /\ motion_handlers' = IF starts THEN motion_handlers \cup {next_cid}
                             ELSE motion_handlers
       /\ next_cid' = IF starts THEN next_cid + 1 ELSE next_cid
       /\ coord' = IF removes THEN ListDelete(coord2, cPoint3.value)
                   ELSE coord2
       /\ last_event' = [handler |-> "press", button |-> button,
                         corner |-> cPoint]
       /\ lastOp' = "button_press_handler"
       \* plot() of no corners: scatter() is called without x and y
       /\ err' = IF coord' = <<>> THEN "TypeError" ELSE "none"
       /\ UNCHANGED moves
       /\ UNCHANGED otherThanPoint

\* MainWindow.button_release_handler for the release of a button that is
\* down
button_release_handler(button) ==
    /\ button \in held
    /\ held' = held \ {button}
    /\ IF Truthy(point_to_move) /\ button = 1
       THEN /\ point_to_move' = None
            /\ motion_handlers' = motion_handlers \ {move_handler_id.value}
            /\ move_handler_id' = None
       ELSE UNCHANGED <<point_to_move, motion_handlers, move_handler_id>>
    /\ last_event' = [handler |-> "release", button |-> button,
                      corner |-> None]
    /\ lastOp' = "button_release_handler"
    /\ err' = "none"
    /\ UNCHANGED <<coord, next_cid, moves>>
    /\ UNCHANGED otherThanPoint

\* MainWindow.point_move_handler, called for a mouse motion to point while
\* a handler is connected; a coordinate 0 counts as no coordinate
point_move_handler(point) ==
    /\ motion_handlers # {}
    /\ moves < MaxMoves
    /\ last_event' = [handler |-> "motion", button |-> 0, corner |-> None]
    /\ lastOp' = "point_move_handler"
    /\ UNCHANGED <<point_to_move, move_handler_id, motion_handlers, next_cid,
                   held>>
    /\ UNCHANGED otherThanPoint
    /\ IF point.x = 0 \/ point.y = 0
       THEN /\ err' = "none"
            /\ UNCHANGED <<coord, moves>>
       ELSE IF point_to_move = None
       THEN /\ err' = "TypeError"
            /\ UNCHANGED <<coord, moves>>
       ELSE IF point_to_move.value >= Len(coord)
       THEN /\ err' = "IndexError"
            /\ UNCHANGED <<coord, moves>>
       ELSE /\ err' = "none"
            /\ coord' = [coord EXCEPT ![point_to_move.value + 1] = point]
            /\ moves' = moves + 1

\* the point editor has read a triangle; no corner is being dragged
InitPoint ==
    /\ SampleInit
    /\ disk = {}
    /\ cwd_is_request = TRUE
    /\ ConcIdle
    /\ SettingsInit
    /\ SimulationInit
    /\ TofInit
    /\ CutInit
    /\ LoadInit
    /\ RenameInit
    /\ FromFileInit
    /\ coord = <<Point(1, 1), Point(3, 1), Point(1, 3)>>
    /\ point_to_move = None
    /\ move_handler_id = None
    /\ motion_handlers = {}
    /\ next_cid = 1
    /\ moves = 0
    /\ held = {}
    /\ last_event = None
    /\ lastOp = "init"
    /\ err = "none"

NextPoint ==
    \/ \E point \in Events, button \in {1, 3} :
          button_press_handler(point, button)
    \/ \E button \in {1, 3} : button_release_handler(button)
    \/ \E point \in Events : point_move_handler(point)

SpecPoint == InitPoint /\ [][NextPoint]_vars

\* C30: for every corner, index 0 included, a press of the left button on
\* the corner followed by a release of the left button ends the drag: after
\* the release point_to_move is None, move_handler_id is None and no motion
\* handler is connected; and no state has more than one motion handler
\* connected.
C30_ReleaseEndsDrag ==
    [][/\ (/\ last_event # None
           /\ last_event.handler = "press"
           /\ last_event.button = 1
           /\ last_event.corner # None
           /\ last_event'.handler = "release"
           /\ last_event'.button = 1)
             => /\ point_to_move' = None
                /\ move_handler_id' = None
                /\ motion_handlers' = {}
       /\ Cardinality(motion_handlers') <= 1]_vars

-----------------------------------------------------------------------------
(* Two creations running at the same time under one Sample.  Neither        *)
(* add_measurement_file nor add_simulation_file takes a lock, so a creation *)
(* can be overtaken between any two of its statements.                      *)

otherThanConc == <<cwd_is_request, removed, requestVars, resolveVars,
                   simVars, tofVars, cutVars, moreVars>>

tabVars == <<sample_measurements, request_measurements,
             sample_simulations, request_simulations>>

\* a caller enters add_measurement_file (new measurement) or
\* add_simulation_file
BeginCreation(p, kind, name, tab_id) ==
    /\ c_pc[p] = "idle"
    /\ Created + Cardinality({q \in Procs : c_pc[q] = "start"}) < MaxCreate
    /\ c_pc' = [c_pc EXCEPT ![p] = "start"]
    /\ c_args' = [c_args EXCEPT
                     ![p] = [kind |-> kind, name |-> name, tab_id |-> tab_id]]
    /\ lastOp' = "begin_creation"
    /\ err' = "none"
    /\ UNCHANGED <<running_int_measurement, running_int_simulation, disk,
                   issued_measurement, issued_simulation, c_serial, c_dir,
                   completed>>
    /\ UNCHANGED tabVars
    /\ UNCHANGED otherThanConc

\* next_serial = sample.get_running_int_measurement()  (measurement.py 188)
\* sample.get_running_int_simulation()                 (simulation.py 71)
ReadCounter(p) ==
    /\ c_pc[p] = "start"
    /\ c_pc' = [c_pc EXCEPT ![p] = "read"]
    /\ IF c_args[p].kind = "Measurement"
       THEN /\ c_serial' = [c_serial EXCEPT ![p] = running_int_measurement]
            /\ issued_measurement' =
                   Append(issued_measurement, running_int_measurement)
            /\ UNCHANGED issued_simulation
       ELSE /\ c_serial' = [c_serial EXCEPT ![p] = running_int_simulation]
            /\ issued_simulation' =
                   Append(issued_simulation, running_int_simulation)
            /\ UNCHANGED issued_measurement
    /\ lastOp' = "read_counter"
    /\ err' = "none"
    /\ UNCHANGED <<running_int_measurement, running_int_simulation, disk,
                   c_args, c_dir, completed>>
    /\ UNCHANGED tabVars
    /\ UNCHANGED otherThanConc

\* the directory name is built from the serial that was read
\* (measurement.py 189-193, simulation.py 70-72)
BuildDirectoryName(p) ==
    /\ c_pc[p] = "read"
    /\ c_pc' = [c_pc EXCEPT ![p] = "named"]
    /\ c_dir' = [c_dir EXCEPT ![p] =
                    DirectoryName(IF c_args[p].kind = "Measurement"
                                  THEN MeasurementPrefix ELSE SimulationPrefix,
                                  c_serial[p], c_args[p].name)]
    /\ lastOp' = "build_directory_name"
    /\ err' = "none"
    /\ UNCHANGED <<running_int_measurement, running_int_simulation, disk,
                   issued_measurement, issued_simulation, c_args, c_serial,
                   completed>>
    /\ UNCHANGED tabVars
    /\ UNCHANGED otherThanConc

\* sample.increase_running_int_..._by_1()  (measurement.py 194,
\* simulation.py 73)
IncrementCounter(p) ==
    /\ c_pc[p] = "named"
    /\ c_pc' = [c_pc EXCEPT ![p] = "incremented"]
    /\ IF c_args[p].kind = "Measurement"
       THEN /\ running_int_measurement' =
                   increase_running_int_measurement_by_1(
                       running_int_measurement)
            /\ UNCHANGED running_int_simulation
       ELSE /\ running_int_simulation' =
                   increase_running_int_simulation_by_1(running_int_simulation)
            /\ UNCHANGED running_int_measurement
    /\ lastOp' = "increment_counter"
    /\ err' = "none"
    /\ UNCHANGED <<disk, issued_measurement, issued_simulation, c_args,
                   c_serial, c_dir, completed>>
    /\ UNCHANGED tabVars
    /\ UNCHANGED otherThanConc

\* measurement_directory.mkdir(exist_ok=True) and the files the new
\* Measurement writes (measurement.py 195-197); Simulation
\* .create_folder_structure (simulation.py 81); after it the entity is
\* registered under its tab_id (measurement.py 210-222, simulation.py 82-83)
MakeDirectory(p) ==
    /\ c_pc[p] = "incremented"
    /\ c_pc' = [c_pc EXCEPT ![p] = "idle"]
    /\ LET a == c_args[p]
           m == Entity(a.kind, a.name, a.tab_id, c_serial[p], c_dir[p])
           sim == Entity(a.kind, a.name, 0 - 1, 0, c_dir[p])
       IN IF a.kind = "Measurement"
          THEN /\ UNCHANGED <<sample_simulations, request_simulations>>
               /\ IF ExistsAsFile(disk, c_dir[p])
                  THEN UNCHANGED <<sample_measurements, request_measurements>>
                  ELSE /\ sample_measurements' =
                            [sample_measurements EXCEPT ![a.tab_id] = m]
                       /\ request_measurements' =
                            [request_measurements EXCEPT ![a.tab_id] = m]
          ELSE /\ UNCHANGED <<sample_measurements, request_measurements>>
               /\ sample_simulations' =
                      [sample_simulations EXCEPT ![a.tab_id] = sim]
               /\ request_simulations' =
                      [request_simulations EXCEPT ![a.tab_id] = sim]
    /\ disk' = IF c_args[p].kind = "Measurement"
               THEN IF ExistsAsFile(disk, c_dir[p]) THEN disk
                    ELSE WriteDescriptor(MakeDir(disk, c_dir[p]), c_dir[p])
               ELSE IF cwd_is_request THEN MakeDir(disk, c_dir[p]) ELSE disk
    /\ completed' = Append(completed,
                           [kind |-> c_args[p].kind, serial |-> c_serial[p],
                            directory |-> c_dir[p]])
    /\ lastOp' = "make_directory"
    /\ err' = "none"
    /\ UNCHANGED <<running_int_measurement, running_int_simulation,
                   issued_measurement, issued_simulation, c_args, c_serial,
                   c_dir>>
    /\ UNCHANGED otherThanConc

NextConc ==
    \/ \E p \in Procs, k \in {"Measurement", "Simulation"}, n \in Names,
          t \in TabIds : BeginCreation(p, k, n, t)
    \/ \E p \in Procs : ReadCounter(p)
    \/ \E p \in Procs : BuildDirectoryName(p)
    \/ \E p \in Procs : IncrementCounter(p)
    \/ \E p \in Procs : MakeDirectory(p)

SpecConc == InitSample /\ [][NextConc]_vars

\* C3: creations of one kind that ran concurrently under the same Sample
\* never obtained the same serial number and never share one directory.
C3_ConcurrentSerialsDistinct ==
    \A i, j \in 1..Len(completed) :
        (i # j /\ completed[i].kind = completed[j].kind)
            => /\ completed[i].serial # completed[j].serial
               /\ completed[i].directory # completed[j].directory

=============================================================================
